---- MODULE Spec2Model ----
(***************************************************************************)
(* The mixlab engine: the workspace (modules, geometry, indications,       *)
(* connections), the command mediator (Engine::client_update), the         *)
(* session registry (Engine::connect_session) and the per-tick scheduler   *)
(* (Engine::run_tick), modelled from src/src/engine.rs.                    *)
(***************************************************************************)
EXTENDS Integers, Sequences, FiniteSets, TLC

VARIABLES
    workspace,    \* Engine.workspace: module_seq, modules, geometry, connections, indications
    session_seq,  \* Engine.session_seq: the last SessionId handed out
    log,          \* every EngineEvent sent on log_tx, in emission order
    pc,           \* where Engine::run stands: "run_tick", "indications" or "commands"
    run_order,    \* Topsort.run_order of the run_tick that has just run (pc = "indications")
    indications,  \* the indications that run_tick returned (pc = "indications")
    panicked,     \* TRUE once the engine thread has panicked
    msg,          \* history: the ClientMessage whose events are in log (kept by SpecCmd)
    twin,         \* a second engine (workspace, session_seq, log) fed the same messages
                  \* (kept by SpecTwin)
    cmd_queue,    \* the EngineMessages in the sync_channel between cmd_tx and cmd_rx
    cmd_loop,     \* the command loop Engine::run is in when pc = "commands": "drain" or "wait"
    send_result,  \* what the last try_send of a client returned: "Ok" or "Busy"
    client_seq,   \* for each EngineSession the ClientSequence of its last accepted message
    accepted,     \* history: the messages try_send has accepted, in order
    processed,    \* history: the messages process_message has been called with, in order
    subs,         \* for each SessionId the session's snapshot and its EngineEvents receiver:
                  \* start (events sent before it subscribed), pending (positions in log of
                  \* the events waiting in the receiver), received (history: positions of
                  \* the events it has taken), lagged (the receiver fell behind the buffer)
    tick,         \* Engine::run's tick: the index of the next tick
    scheduled_tick_end, \* scheduled_tick_end of the tick under way, in ms after start
    now,          \* Instant::now(), in ms after start
    save,         \* the save::Workspace that Workspace::load is given (SpecLoad)
    loaded,       \* the workspace that Workspace::load returned for save (SpecRoundTrip)
    senders,      \* the live SyncSenders of the command queue: handle (the
                  \* EngineHandle's cmd_tx is alive) and clones (the clones made by
                  \* connect that are alive) (SpecStop)
    ticks_after_drop, \* history: the run_ticks begun since the last sender was dropped
    buffers,      \* run_tick's buffers at its return: for each OutputId written the
                  \* tick that wrote it (SpecTick)
    input_refs,   \* history: for each InputId of a module run by the last run_tick, the
                  \* InputRef handed to the module
    owners,       \* history: for each event of log its origin, the OpClock of the
                  \* command or "tick" (SpecTick)
    tick_hist     \* history of the tick under way: executed (the index run_tick was
                  \* called with, -1 before the first), late (the tick's execution ended
                  \* at or after scheduled_tick_end), blocked (recv_timeout was called)

\* the variables of the command queue (kept by SpecQueue)
queue_vars == <<cmd_queue, cmd_loop, send_result, client_seq, accepted, processed>>

\* the variables of the clock (kept by SpecTiming)
clock_vars == <<tick, scheduled_tick_end, now, tick_hist>>

\* the variables of the shutdown (kept by SpecStop)
stop_vars == <<senders, ticks_after_drop>>

\* the variables of the buffers and events of a tick (kept by SpecTick)
tick_vars == <<buffers, input_refs, owners>>

\* the variables of save and load (kept by SpecLoad and SpecRoundTrip)
load_vars == <<save, loaded>>

rest_vars == <<stop_vars, tick_vars, load_vars>>

\* the variables that Spec, SpecCmd and SpecTwin leave alone
aux_vars == <<queue_vars, subs, clock_vars, rest_vars>>

vars == <<workspace, session_seq, log, pc, run_order, indications, panicked, msg, twin,
          queue_vars, subs, clock_vars, rest_vars>>

----------------------------------------------------------------------------
(* Bounds of the model *)

MaxModules == 2      \* CreateModule is accepted while module_seq < MaxModules
MaxSessions == 1     \* sessions connected in one behaviour
MaxSends == 10       \* messages the command queue accepts in one behaviour (SpecQueue)
MaxSubscribers == 2  \* sessions connected in one behaviour of SpecFanout
MaxCommands == 3     \* commands processed in one behaviour of SpecFanout
MaxNow == 40         \* the time, in ms after start, up to which SpecTiming follows the engine
MaxTickIndex == 120  \* the tick indices for which the schedule is computed
MaxSavedModules == 2 \* the module ids of a saved layout (SpecLoad)
MaxStopSends == 4    \* messages the command queue accepts in one behaviour of SpecStop
MaxTickSessions == 2 \* sessions connected in one behaviour of SpecTick
MaxTickSends == 4    \* messages the command queue accepts in one behaviour of SpecTick
MaxTicks == 3        \* ticks run in one behaviour of SpecRoute and of SpecTick

\* mpsc::sync_channel(8): the capacity of the command queue
QueueCapacity == 8

\* broadcast::channel(64): the events the broadcast keeps for a receiver
BroadcastCapacity == 64

TICKS_PER_SECOND == 60

(* mixlab_protocol::VIDEO_MIXER_CHANNELS, imported at video_mixer.rs:5; its *)
(* value is set outside the modelled files, so the model is parametric in it *)
VIDEO_MIXER_CHANNELS == 2

----------------------------------------------------------------------------
(* Module kinds and their terminals *)

LineTypes == {"Mono", "Stereo", "Video"}

ModuleKinds == {"Amplifier", "Shader", "VideoMixer"}

\* a module kind of the repository outside the modelled files whose run_tick
\* returns an indication (the Module contract: run_tick -> Option<indication>,
\* "e.g. VU meter reading"): one stereo input, passed on to one stereo output
MeterKind == "Meter"

\* Module::inputs for each module kind
ModuleInputs(kind) ==
    CASE kind = "Amplifier" -> <<"Stereo", "Mono">>
      [] kind = "Shader" -> <<>>
      [] kind = "VideoMixer" -> [i \in 1..VIDEO_MIXER_CHANNELS |-> "Video"]
      [] kind = MeterKind -> <<"Stereo">>

\* Module::outputs for each module kind
ModuleOutputs(kind) ==
    CASE kind = "Amplifier" -> <<"Stereo">>
      [] kind = "Shader" -> <<"Video">>
      [] kind = "VideoMixer" -> <<"Video", "Video", "Video">>
      [] kind = MeterKind -> <<"Stereo">>

ParamValues == {0}
GeometryValues == {0}
SequenceValues == {1, 2}

\* ModuleParams of the given kinds: the variant selects the module kind
ModuleParams(kinds) == [kind : kinds, value : ParamValues]

\* Module::create(params): the module and its initial indication
ModuleCreate(params) ==
    [module |-> [kind |-> params.kind,
                 params |-> IF params.kind = "Shader" THEN 0 ELSE params.value],
     indication |-> 0]

\* Module::params
ModuleParamsOf(module) == [kind |-> module.kind, value |-> module.params]

\* Module::update(params): Amplifier and VideoMixer store the new params,
\* Shader ignores them; the terminal lists never change
ModuleUpdate(module, params) ==
    IF module.kind = "Shader" THEN module ELSE [module EXCEPT !.params = params.value]

\* InputRef::Disconnected
DisconnectedRef == [output |-> <<>>, tick |-> -1]

\* the indication the meter returns: 1 on a Disconnected input, 2 on a buffer
MeterRunTick(refs) == IF refs[1] = DisconnectedRef THEN 1 ELSE 2

\* Module::run_tick on the input refs given: the indication the module
\* returns, 0 standing for None (Amplifier, Shader and VideoMixer return None)
ModuleRunTick(module, refs) ==
    IF module.kind = MeterKind THEN MeterRunTick(refs) ELSE 0

----------------------------------------------------------------------------
(* Identifiers *)

ModuleIds == 1..MaxModules
\* terminal indices used by clients: the first two inputs and the first output
\* of a module; input index VIDEO_MIXER_CHANNELS and output index 3 are out of
\* range on every module kind
InputIndices == {0, 1, VIDEO_MIXER_CHANNELS}
OutputIndices == {0, 3}
InputIds == ModuleIds \X InputIndices
OutputIds == ModuleIds \X OutputIndices

\* util::Sequence::next: the next id of a sequence whose last id was seq
SequenceNext(seq) == seq + 1

Range(s) == {s[i] : i \in DOMAIN s}

\* every order in which a HashMap or HashSet may iterate over the keys S
Orders(S) == {f \in [1..Cardinality(S) -> S] : \A i, j \in 1..Cardinality(S) : f[i] = f[j] => i = j}

----------------------------------------------------------------------------
(* Workspace *)

\* Workspace::new
WorkspaceNew ==
    [module_seq |-> 0,
     modules |-> <<>>,
     geometry |-> <<>>,
     connections |-> <<>>,
     indications |-> <<>>]

NoType == "NoType"

\* Workspace::terminal_type for TerminalId::Input
InputType(ws, input_id) ==
    IF input_id[1] \notin DOMAIN ws.modules THEN NoType
    ELSE LET inputs == ModuleInputs(ws.modules[input_id[1]].kind)
         IN IF input_id[2] + 1 \in DOMAIN inputs THEN inputs[input_id[2] + 1] ELSE NoType

\* Workspace::terminal_type for TerminalId::Output
OutputType(ws, output_id) ==
    IF output_id[1] \notin DOMAIN ws.modules THEN NoType
    ELSE LET outputs == ModuleOutputs(ws.modules[output_id[1]].kind)
         IN IF output_id[2] + 1 \in DOMAIN outputs THEN outputs[output_id[2] + 1] ELSE NoType

\* HashMap::insert
MapInsert(map, k, v) == [x \in DOMAIN map \cup {k} |-> IF x = k THEN v ELSE map[x]]

\* HashMap::remove
MapRemove(map, k) == [x \in DOMAIN map \ {k} |-> map[x]]

\* Workspace::connect without the comparison of the line types
ConnectUnchecked(ws, input_id, output_id) ==
    IF input_id[1] \notin DOMAIN ws.modules
    THEN [result |-> "NoInput", old |-> <<>>, ws |-> ws]
    ELSE IF output_id[1] \notin DOMAIN ws.modules
    THEN [result |-> "NoOutput", old |-> <<>>, ws |-> ws]
    ELSE [result |-> "Ok",
          old |-> IF input_id \in DOMAIN ws.connections THEN ws.connections[input_id] ELSE <<>>,
          ws |-> [ws EXCEPT !.connections =
                    [x \in DOMAIN @ \cup {input_id} |-> IF x = input_id THEN output_id ELSE @[x]]]]

\* Workspace::connect: result "Ok" with the displaced output (<<>> for None),
\* or the ConnectError; ws is the workspace afterwards
Connect(ws, input_id, output_id) ==
    IF InputType(ws, input_id) = NoType
    THEN [result |-> "NoInput", old |-> <<>>, ws |-> ws]
    ELSE IF OutputType(ws, output_id) = NoType
    THEN [result |-> "NoOutput", old |-> <<>>, ws |-> ws]
    ELSE IF InputType(ws, input_id) = OutputType(ws, output_id)
    THEN [result |-> "Ok",
          old |-> IF input_id \in DOMAIN ws.connections THEN ws.connections[input_id] ELSE <<>>,
          ws |-> [ws EXCEPT !.connections = MapInsert(@, input_id, output_id)]]
    ELSE [result |-> "TypeMismatch", old |-> <<>>, ws |-> ws]

----------------------------------------------------------------------------
(* Events and messages *)

\* EngineEvent::Sync(OpClock(session, sequence))
Sync(session_id, sequence) == [type |-> "Sync", clock |-> <<session_id, sequence>>]

EvCreateModule(id, params, geometry, indication) ==
    [type |-> "CreateModule", id |-> id, params |-> params, geometry |-> geometry,
     indication |-> indication,
     inputs |-> ModuleInputs(params.kind), outputs |-> ModuleOutputs(params.kind)]
EvUpdateModuleParams(id, params) == [type |-> "UpdateModuleParams", id |-> id, params |-> params]
EvUpdateModuleIndication(id, indication) ==
    [type |-> "UpdateModuleIndication", id |-> id, indication |-> indication]
EvUpdateWindowGeometry(id, geometry) ==
    [type |-> "UpdateWindowGeometry", id |-> id, geometry |-> geometry]
EvDeleteModule(id) == [type |-> "DeleteModule", id |-> id]
EvCreateConnection(input_id, output_id) ==
    [type |-> "CreateConnection", input |-> input_id, output |-> output_id]
EvDeleteConnection(input_id) == [type |-> "DeleteConnection", input |-> input_id]

\* ClientOp, over the module kinds given
ClientOpsOf(kinds) ==
    [op : {"CreateModule"}, params : ModuleParams(kinds), geometry : GeometryValues]
    \cup [op : {"UpdateModuleParams"}, id : ModuleIds, params : ModuleParams(kinds)]
    \cup [op : {"UpdateWindowGeometry"}, id : ModuleIds, geometry : GeometryValues]
    \cup [op : {"DeleteModule"}, id : ModuleIds]
    \cup [op : {"CreateConnection"}, input : InputIds, output : OutputIds]
    \cup [op : {"DeleteConnection"}, input : InputIds]

ClientOps == ClientOpsOf(ModuleKinds)

\* the ops of SpecCmd: modules without VideoMixer
CmdOps == ClientOpsOf({"Amplifier", "Shader"})

\* ClientMessage with its sender, as queued in EngineMessage::ClientMessage
ClientMessage(session_id, sequence, op) ==
    [session |-> session_id, sequence |-> sequence, op |-> op]

NoMsg == [session |-> 0, sequence |-> 0, op |-> [op |-> "None"]]

\* EngineMessage::ConnectSession and EngineMessage::ClientMessage, as queued
ConnectSessionMsg == [type |-> "ConnectSession"]
ClientMessageMsg(session_id, sequence, op) ==
    [type |-> "ClientMessage", session |-> session_id, sequence |-> sequence, op |-> op]

\* no try_send yet
NoSend == "None"

----------------------------------------------------------------------------
(* Engine::client_update *)

\* the ServerUpdates of a sequence of removed connections
DeleteConnectionEvents(order) == [i \in DOMAIN order |-> EvDeleteConnection(order[i])]

\* DeleteModule that looks at the inputs of the connections only
TouchingConnectionsInputOnly(ws, module_id) ==
    {input \in DOMAIN ws.connections : input[1] = module_id}

\* the connections DeleteModule(module_id) removes: input or output on module_id
TouchingConnections(ws, module_id) ==
    {input \in DOMAIN ws.connections :
        input[1] = module_id \/ ws.connections[input][1] = module_id}

\* CreateModule that hands out the least id no module of the workspace has
DoCreateModuleReuse(ws, op) ==
    LET id == CHOOSE x \in 1..(ws.module_seq + 1) :
                  /\ x \notin DOMAIN ws.modules
                  /\ \A y \in 1..(x - 1) : y \in DOMAIN ws.modules
        created == ModuleCreate(op.params)
    IN [ws |-> [ws EXCEPT !.module_seq = IF id > @ THEN id ELSE @,
                          !.modules = MapInsert(@, id, created.module),
                          !.geometry = MapInsert(@, id, op.geometry),
                          !.indications = MapInsert(@, id, created.indication)],
        events |-> <<EvCreateModule(id, op.params, op.geometry, created.indication)>>]

\* ClientOp::CreateModule arm: the workspace afterwards and the events logged
DoCreateModule(ws, op) ==
    LET id == SequenceNext(ws.module_seq)
        created == ModuleCreate(op.params)
    IN [ws |-> [ws EXCEPT !.module_seq = id,
                          !.modules = MapInsert(@, id, created.module),
                          !.geometry = MapInsert(@, id, op.geometry),
                          !.indications = MapInsert(@, id, created.indication)],
        events |-> <<EvCreateModule(id, op.params, op.geometry, created.indication)>>]

\* ClientOp::UpdateModuleParams arm
DoUpdateModuleParams(ws, op) ==
    IF op.id \in DOMAIN ws.modules
    THEN [ws |-> [ws EXCEPT !.modules[op.id] = ModuleUpdate(@, op.params)],
          events |-> <<EvUpdateModuleParams(op.id, op.params)>>]
    ELSE [ws |-> ws, events |-> <<>>]

\* ClientOp::UpdateWindowGeometry arm
DoUpdateWindowGeometry(ws, op) ==
    IF op.id \in DOMAIN ws.geometry
    THEN [ws |-> [ws EXCEPT !.geometry[op.id] = op.geometry],
          events |-> <<EvUpdateWindowGeometry(op.id, op.geometry)>>]
    ELSE [ws |-> ws, events |-> <<>>]

\* DeleteModule that removes the module and leaves its connections in place
DoDeleteModuleAlone(ws, op, order) ==
    LET exists == op.id \in DOMAIN ws.modules
    IN [ws |-> [ws EXCEPT !.modules = IF exists THEN MapRemove(@, op.id) ELSE @],
        events |-> IF exists THEN <<EvDeleteModule(op.id)>> ELSE <<>>]

\* DeleteModule that logs the removal of the module before the connections
DoDeleteModuleFirst(ws, op, order) ==
    LET conns == [x \in DOMAIN ws.connections \ Range(order) |-> ws.connections[x]]
        exists == op.id \in DOMAIN ws.modules
    IN [ws |-> [ws EXCEPT !.connections = conns,
                          !.modules = IF exists
                                      THEN [x \in DOMAIN @ \ {op.id} |-> @[x]] ELSE @],
        events |-> (IF exists THEN <<EvDeleteModule(op.id)>> ELSE <<>>)
                   \o [i \in DOMAIN order |-> EvDeleteConnection(order[i])]]

\* ClientOp::DeleteModule arm; order is the order in which the iteration over
\* the connections HashMap met the connections that touch the module
DoDeleteModule(ws, op, order) ==
    LET conns == [x \in DOMAIN ws.connections \ Range(order) |-> ws.connections[x]]
        exists == op.id \in DOMAIN ws.modules
    IN [ws |-> [ws EXCEPT !.connections = conns,
                          !.modules = IF exists THEN MapRemove(@, op.id) ELSE @],
        events |-> DeleteConnectionEvents(order)
                   \o (IF exists THEN <<EvDeleteModule(op.id)>> ELSE <<>>)]

\* CreateConnection that logs the new connection before the displaced one
DoCreateConnectionFirst(ws, op) ==
    LET r == Connect(ws, op.input, op.output)
    IN IF r.result = "Ok"
       THEN [ws |-> r.ws,
             events |-> <<EvCreateConnection(op.input, op.output)>>
                        \o (IF r.old # <<>> THEN <<EvDeleteConnection(op.input)>> ELSE <<>>)]
       ELSE [ws |-> r.ws, events |-> <<>>]

\* ClientOp::CreateConnection arm
DoCreateConnection(ws, op) ==
    LET r == Connect(ws, op.input, op.output)
    IN IF r.result = "Ok"
       THEN [ws |-> r.ws,
             events |-> (IF r.old # <<>> THEN <<EvDeleteConnection(op.input)>> ELSE <<>>)
                        \o <<EvCreateConnection(op.input, op.output)>>]
       ELSE [ws |-> r.ws, events |-> <<>>]

\* ClientOp::DeleteConnection arm
DoDeleteConnection(ws, op) ==
    IF op.input \in DOMAIN ws.connections
    THEN [ws |-> [ws EXCEPT !.connections = MapRemove(@, op.input)],
          events |-> <<EvDeleteConnection(op.input)>>]
    ELSE [ws |-> ws, events |-> <<>>]

\* the match on msg.op of client_update
ApplyOp(ws, op, order) ==
    CASE op.op = "CreateModule" -> DoCreateModule(ws, op)
      [] op.op = "UpdateModuleParams" -> DoUpdateModuleParams(ws, op)
      [] op.op = "UpdateWindowGeometry" -> DoUpdateWindowGeometry(ws, op)
      [] op.op = "DeleteModule" -> DoDeleteModule(ws, op, order)
      [] op.op = "CreateConnection" -> DoCreateConnection(ws, op)
      [] op.op = "DeleteConnection" -> DoDeleteConnection(ws, op)

\* the iteration orders the op may observe: only DeleteModule iterates a HashMap
IterationOrders(ws, op) ==
    IF op.op = "DeleteModule" THEN Orders(TouchingConnections(ws, op.id)) ELSE {<<>>}

\* client_update that logs the Sync before the op's ServerUpdates
ClientUpdateEventsSyncFirst(session_id, sequence, events) ==
    <<Sync(session_id, sequence)>> \o events

\* client_update that calls sync_log(clock) after the op's first ServerUpdate
ClientUpdateEventsSyncSecond(session_id, sequence, events) ==
    IF events = <<>> THEN <<Sync(session_id, sequence)>>
    ELSE <<events[1], Sync(session_id, sequence)>> \o Tail(events)

\* client_update that returns without a Sync when the op changed nothing
ClientUpdateEventsIfChanged(session_id, sequence, events) ==
    IF events = <<>> THEN <<>> ELSE events \o <<Sync(session_id, sequence)>>

\* the events client_update emits: the op's ServerUpdates, then sync_log(clock)
ClientUpdateEvents(session_id, sequence, events) == events \o <<Sync(session_id, sequence)>>

\* Engine::client_update on the engine state (workspace ws, event stream
\* events): the op is applied, its ServerUpdates are logged, then the Sync
ClientUpdateResult(ws, events, session_id, sequence, op, order) ==
    LET r == ApplyOp(ws, op, order)
    IN [workspace |-> r.ws,
        log |-> events \o ClientUpdateEvents(session_id, sequence, r.events)]

\* Engine::process_message, EngineMessage::ClientMessage arm: Engine::client_update
ClientUpdate(session_id, sequence, op) ==
    /\ ~panicked
    /\ pc = "commands"
    /\ op.op = "CreateModule" => workspace.module_seq < MaxModules
    /\ (op.op = "UpdateModuleParams" /\ op.id \in DOMAIN workspace.modules)
          => op.params.kind = workspace.modules[op.id].kind
    /\ \E order \in IterationOrders(workspace, op) :
          LET r == ClientUpdateResult(workspace, log, session_id, sequence, op, order)
          IN /\ workspace' = r.workspace
             /\ log' = r.log
    /\ UNCHANGED <<session_seq, pc, run_order, indications, panicked>>

\* Engine::connect_session: the next SessionId
ConnectSessionResult(seq) == SequenceNext(seq)

\* Engine::process_message, EngineMessage::ConnectSession arm: connect_session
ConnectSession ==
    /\ ~panicked
    /\ pc = "commands"
    /\ session_seq' = ConnectSessionResult(session_seq)
    /\ UNCHANGED <<workspace, log, pc, run_order, indications, panicked>>

\* a subscriber takes every event delivered to its EngineEvents receiver
Observe ==
    /\ log # <<>>
    /\ log' = <<>>
    /\ UNCHANGED <<workspace, session_seq, pc, run_order, indications, panicked>>

----------------------------------------------------------------------------
(* Engine::run_tick *)

\* modules which do not send their output to the input of any other module
TerminalModules(ws) ==
    DOMAIN ws.modules \ {ws.connections[input][1] : input \in DOMAIN ws.connections}

RECURSIVE Traverse(_, _, _), TraverseInputs(_, _, _, _)

\* traverse(module_id, state) over the workspace ws
Traverse(ws, module_id, state) ==
    IF state.panic \/ module_id \in state.seen THEN state
    ELSE IF module_id \notin DOMAIN ws.modules THEN [state EXCEPT !.panic = TRUE]
    ELSE LET entered == [state EXCEPT !.seen = @ \cup {module_id}]
             walked == TraverseInputs(ws, module_id, 0, entered)
         IN IF walked.panic THEN walked
            ELSE [walked EXCEPT !.run_order = Append(@, module_id)]

\* the loop of traverse over the inputs i, i+1, ... of the module
TraverseInputs(ws, module_id, i, state) ==
    IF state.panic \/ i >= Len(ModuleInputs(ws.modules[module_id].kind)) THEN state
    ELSE LET terminal_id == <<module_id, i>>
             next == IF terminal_id \in DOMAIN ws.connections
                     THEN Traverse(ws, ws.connections[terminal_id][1], state)
                     ELSE state
         IN TraverseInputs(ws, module_id, i + 1, next)

RECURSIVE TraverseAll(_, _, _, _)

\* the loop over terminal_modules, met in the order given, from its k-th element
TraverseAll(ws, order, k, state) ==
    IF k > Len(order) THEN state
    ELSE TraverseAll(ws, order, k + 1, Traverse(ws, order[k], state))

\* the Topsort after the depth-first search from the terminal modules
Topsort(ws, order) ==
    TraverseAll(ws, order, 1, [run_order |-> <<>>, seen |-> {}, panic |-> FALSE])

\* buffers that still hold what the run_tick before wrote
StaleBuffers(previous) == previous

\* let mut buffers = HashMap::new(), whatever the run_tick before wrote
FreshBuffers(previous) == <<>>

\* the input ref the run of a module is handed for its input: the buffer of
\* the connected output (the output and the tick that wrote it) if buffers has
\* it, otherwise Disconnected
InputRef(ws, bufs, input_id) ==
    IF input_id \in DOMAIN ws.connections /\ ws.connections[input_id] \in DOMAIN bufs
    THEN [output |-> ws.connections[input_id], tick |-> bufs[ws.connections[input_id]]]
    ELSE DisconnectedRef

\* the input refs of a module, by input index
InputRefs(ws, bufs, module_id) ==
    [i \in DOMAIN ModuleInputs(ws.modules[module_id].kind) |->
        InputRef(ws, bufs, <<module_id, i - 1>>)]

\* buffers.insert(OutputId(module_id, i), output) for every output of the module
InsertOutputs(ws, bufs, module_id, this_tick) ==
    LET written == {<<module_id, i - 1>> : i \in DOMAIN ModuleOutputs(ws.modules[module_id].kind)}
    IN [x \in DOMAIN bufs \cup written |-> IF x \in written THEN this_tick ELSE bufs[x]]

RECURSIVE Execute(_, _, _, _, _)

\* the execution loop of run_tick(this_tick) from the k-th module of the run
\* order; state holds the buffers, the input refs handed out so far (by
\* InputId) and the indications returned so far, in run order
Execute(ws, order, k, this_tick, state) ==
    IF k > Len(order) THEN state
    ELSE LET module_id == order[k]
             refs == InputRefs(ws, state.buffers, module_id)
             indic == ModuleRunTick(ws.modules[module_id], refs)
             handed == [x \in {<<module_id, i - 1>> : i \in DOMAIN refs} |-> refs[x[2] + 1]]
         IN Execute(ws, order, k + 1, this_tick,
                    [buffers |-> InsertOutputs(ws, state.buffers, module_id, this_tick),
                     input_refs |-> [x \in DOMAIN state.input_refs \cup DOMAIN handed |->
                                        IF x \in DOMAIN handed THEN handed[x]
                                        ELSE state.input_refs[x]],
                     indications |-> IF indic = 0 THEN state.indications
                                     ELSE Append(state.indications, <<module_id, indic>>)])

\* run_tick's execution of the run order, from its fresh buffers
RunModules(ws, order, this_tick, previous) ==
    Execute(ws, order, 1, this_tick,
            [buffers |-> FreshBuffers(previous), input_refs |-> <<>>, indications |-> <<>>])

\* the execution loop's modules.get_mut(&module_id).expect("module get_mut")
\* meets a module id of the run order that the module map does not have
ExpectPanics(ws, order) == \E k \in DOMAIN order : order[k] \notin DOMAIN ws.modules

\* Engine::run_tick: terminal_modules is iterated in some order, the modules
\* are sorted depth first and run in that order
RunTick ==
    /\ ~panicked
    /\ pc = "run_tick"
    /\ \E order \in Orders(TerminalModules(workspace)) :
          LET topsort == Topsort(workspace, order)
              panic == topsort.panic \/ ExpectPanics(workspace, topsort.run_order)
          IN /\ run_order' = topsort.run_order
             /\ panicked' = panic
             /\ indications' = IF panic THEN <<>>
                               ELSE RunModules(workspace, topsort.run_order, tick,
                                               buffers).indications
    /\ pc' = "indications"
    /\ UNCHANGED <<workspace, session_seq, log>>

RECURSIVE InstallIndications(_, _, _)

\* the inserts of the loop that sends out indication updates, from the k-th
InstallIndications(map, list, k) ==
    IF k > Len(list) THEN map
    ELSE InstallIndications(MapInsert(map, list[k][1], list[k][2]), list, k + 1)

\* indication updates sent from the last of the list to the first
IndicationEventsReversed(list) ==
    [i \in DOMAIN list |->
        EvUpdateModuleIndication(list[Len(list) + 1 - i][1], list[Len(list) + 1 - i][2])]

\* the log_op calls of the loop that sends out indication updates
IndicationEvents(list) ==
    [i \in DOMAIN list |-> EvUpdateModuleIndication(list[i][1], list[i][2])]

\* Engine::run after run_tick: the indications are installed and logged, and
\* the engine turns to the command queue
SendIndications ==
    /\ ~panicked
    /\ pc = "indications"
    /\ workspace' = [workspace EXCEPT !.indications = InstallIndications(@, indications, 1)]
    /\ log' = log \o IndicationEvents(indications)
    /\ run_order' = <<>>
    /\ indications' = <<>>
    /\ pc' = "commands"
    /\ UNCHANGED <<session_seq, panicked>>

\* Engine::run leaves the command loops at the scheduled end of the tick
NextTick ==
    /\ ~panicked
    /\ pc = "commands"
    /\ pc' = "run_tick"
    /\ UNCHANGED <<workspace, session_seq, log, run_order, indications, panicked>>

----------------------------------------------------------------------------

TwinNew == [workspace |-> WorkspaceNew, session_seq |-> 0, log |-> <<>>]

\* no saved layout: the engine starts from Workspace::new
NoSave == [module_seq |-> 0, modules |-> <<>>]

\* the state after start, but for pc and save
InitEngine ==
    /\ workspace = WorkspaceNew
    /\ session_seq = 0
    /\ log = <<>>
    /\ run_order = <<>>
    /\ indications = <<>>
    /\ panicked = FALSE
    /\ msg = NoMsg
    /\ twin = TwinNew
    /\ cmd_queue = <<>>
    /\ cmd_loop = "drain"
    /\ send_result = NoSend
    /\ client_seq = <<>>
    /\ accepted = <<>>
    /\ processed = <<>>
    /\ subs = <<>>
    /\ tick = 0
    /\ scheduled_tick_end = 0
    /\ now = 0
    /\ tick_hist = [executed |-> -1, late |-> FALSE, blocked |-> FALSE]
    /\ loaded = WorkspaceNew
    /\ senders = [handle |-> TRUE, clones |-> 0]
    /\ ticks_after_drop = 0
    /\ buffers = <<>>
    /\ input_refs = <<>>
    /\ owners = <<>>

Init ==
    /\ InitEngine
    /\ pc = "run_tick"
    /\ save = NoSave

\* the subscriber is prompt: it has read the event stream before the engine
\* takes its next step (the engine itself never reads what it has sent)
Backlog == log = <<>>

\* EngineHandle::connect: a session connects
SessionConnect ==
    /\ Backlog
    /\ session_seq < MaxSessions
    /\ ConnectSession
    /\ UNCHANGED <<msg, twin>>
    /\ UNCHANGED aux_vars

\* EngineSession::update: a session sends a message and the engine processes it
\* (the sequence number only tags the Sync; CmdUpdate below varies it)
SessionUpdate ==
    /\ Backlog
    /\ \E session_id \in 1..session_seq, op \in ClientOps :
          ClientUpdate(session_id, 1, op)
    /\ UNCHANGED <<msg, twin>>
    /\ UNCHANGED aux_vars

\* the steps of Engine::run around run_tick
EngineTick ==
    /\ Backlog
    /\ (RunTick \/ SendIndications \/ NextTick)
    /\ UNCHANGED <<msg, twin>>
    /\ UNCHANGED aux_vars

SessionObserve ==
    /\ Observe
    /\ msg' = NoMsg
    /\ UNCHANGED twin
    /\ UNCHANGED aux_vars

Next ==
    \/ SessionConnect
    \/ SessionUpdate
    \/ EngineTick
    \/ SessionObserve

Spec == Init /\ [][Next]_vars

----------------------------------------------------------------------------
(* SpecCmd: the engine with the message of each client_update on record *)

CmdUpdate ==
    /\ Backlog
    /\ \E session_id \in 1..session_seq, sequence \in SequenceValues, op \in CmdOps :
          /\ ClientUpdate(session_id, sequence, op)
          /\ msg' = ClientMessage(session_id, sequence, op)
    /\ UNCHANGED twin
    /\ UNCHANGED aux_vars

NextCmd ==
    \/ SessionConnect
    \/ CmdUpdate
    \/ EngineTick
    \/ SessionObserve

SpecCmd == Init /\ [][NextCmd]_vars

----------------------------------------------------------------------------
(* SpecTwin: two engines process the same messages in the same order; a tick *)
(* changes neither workspace nor log, so only the first engine's ticks are   *)
(* stepped                                                                   *)

TwinConnect ==
    /\ Backlog
    /\ session_seq < MaxSessions
    /\ ConnectSession
    /\ twin' = [twin EXCEPT !.session_seq = ConnectSessionResult(@)]
    /\ UNCHANGED msg
    /\ UNCHANGED aux_vars

TwinUpdate ==
    /\ Backlog
    /\ \E session_id \in 1..session_seq, sequence \in SequenceValues, op \in ClientOps :
          /\ ClientUpdate(session_id, sequence, op)
          /\ \E order \in IterationOrders(twin.workspace, op) :
                LET r == ClientUpdateResult(twin.workspace, twin.log,
                                            session_id, sequence, op, order)
                IN twin' = [twin EXCEPT !.workspace = r.workspace, !.log = r.log]
    /\ UNCHANGED msg
    /\ UNCHANGED aux_vars

TwinObserve ==
    /\ Observe
    /\ twin' = [twin EXCEPT !.log = <<>>]
    /\ UNCHANGED msg
    /\ UNCHANGED aux_vars

NextTwin ==
    \/ TwinConnect
    \/ TwinUpdate
    \/ EngineTick
    \/ TwinObserve

SpecTwin == Init /\ [][NextTwin]_vars

----------------------------------------------------------------------------
(* SpecQueue: the sessions send through the command queue and Engine::run  *)
(* takes the messages from it in its two command loops                     *)

\* the op sent through the queue; no module is created, so it is processed
\* to its Sync alone
QueueOps == {[op |-> "DeleteModule", id |-> 1]}

\* a channel without a bound: try_send always succeeds
TrySendUnbounded(queue, message) == [result |-> "Ok", queue |-> Append(queue, message)]

\* SyncSender::try_send on the sync_channel(8): Busy (TrySendError::Full) when
\* the queue holds QueueCapacity messages
TrySend(queue, message) ==
    IF Len(queue) < QueueCapacity
    THEN [result |-> "Ok", queue |-> Append(queue, message)]
    ELSE [result |-> "Busy", queue |-> queue]

\* a receive that takes the message sent last
DequeueNewest(queue) ==
    [message |-> queue[Len(queue)], queue |-> SubSeq(queue, 1, Len(queue) - 1)]

\* Receiver::try_recv and Receiver::recv_timeout returning Ok(msg)
Dequeue(queue) == [message |-> Head(queue), queue |-> Tail(queue)]

\* the ConnectSession messages in the queue
QueuedConnects == Cardinality({i \in DOMAIN cmd_queue : cmd_queue[i].type = "ConnectSession"})

\* a try_send of the message by a client
Send(message) ==
    /\ Len(accepted) < MaxSends
    /\ LET r == TrySend(cmd_queue, message)
       IN /\ cmd_queue' = r.queue
          /\ send_result' = r.result
          /\ accepted' = IF r.result = "Ok" THEN Append(accepted, message) ELSE accepted
          /\ client_seq' = IF r.result = "Ok" /\ message.type = "ClientMessage"
                           THEN [client_seq EXCEPT ![message.session] = message.sequence]
                           ELSE client_seq
    /\ UNCHANGED <<workspace, session_seq, log, pc, run_order, indications, panicked>>
    /\ UNCHANGED <<msg, twin, rest_vars, subs, cmd_loop, processed>>
    /\ UNCHANGED clock_vars

\* EngineHandle::connect: try_send(EngineMessage::ConnectSession)
QueueConnect ==
    /\ session_seq + QueuedConnects < MaxSessions
    /\ Send(ConnectSessionMsg)

\* EngineSession::update: the session sends its next message
QueueUpdate ==
    \E session_id \in DOMAIN client_seq, op \in QueueOps :
        Send(ClientMessageMsg(session_id, client_seq[session_id] + 1, op))

\* the Ok arms of the two command loops: process_message on the message received
QueueRecv ==
    /\ cmd_queue # <<>>
    /\ LET r == Dequeue(cmd_queue)
       IN /\ cmd_queue' = r.queue
          /\ processed' = Append(processed, r.message)
          /\ IF r.message.type = "ConnectSession"
             THEN /\ ConnectSession
                  /\ client_seq' = MapInsert(client_seq, session_seq', 0)
             ELSE /\ ClientUpdate(r.message.session, r.message.sequence, r.message.op)
                  /\ UNCHANGED client_seq
    /\ UNCHANGED <<msg, twin, rest_vars, subs, cmd_loop, send_result, accepted>>
    /\ UNCHANGED clock_vars

\* the drain loop meets TryRecvError::Empty and Engine::run goes on to wait
QueueDrained ==
    /\ ~panicked
    /\ pc = "commands"
    /\ cmd_loop = "drain"
    /\ cmd_queue = <<>>
    /\ cmd_loop' = "wait"
    /\ UNCHANGED <<workspace, session_seq, log, pc, run_order, indications, panicked>>
    /\ UNCHANGED <<msg, twin, rest_vars, subs, cmd_queue, send_result, client_seq, accepted, processed>>
    /\ UNCHANGED clock_vars

\* the wait loop ends (the scheduled end has come, or RecvTimeoutError::Timeout)
QueueNextTick ==
    /\ cmd_loop = "wait"
    /\ NextTick
    /\ cmd_loop' = "drain"
    /\ UNCHANGED <<msg, twin, rest_vars, subs, cmd_queue, send_result, client_seq, accepted, processed>>
    /\ UNCHANGED clock_vars

\* run_tick and the indications of the tick
QueueTick ==
    /\ (RunTick \/ SendIndications)
    /\ UNCHANGED <<msg, twin, subs>>
    /\ UNCHANGED <<queue_vars, clock_vars, rest_vars>>

\* the steps of the engine thread
EngineQueue ==
    \/ QueueRecv
    \/ QueueDrained
    \/ QueueNextTick
    \/ QueueTick

NextQueue ==
    \/ QueueConnect
    \/ QueueUpdate
    \/ EngineQueue

\* the engine thread keeps running
SpecQueue == Init /\ [][NextQueue]_vars /\ WF_vars(EngineQueue)

----------------------------------------------------------------------------
(* SpecStop: the senders of the command queue are dropped and Engine::run   *)
(* returns                                                                  *)

\* some SyncSender of the command queue is alive
Alive(tx) == tx.handle \/ tx.clones > 0

\* a receive that reports Disconnected as soon as no sender is left
DisconnectedAtOnce(queue, tx) == ~Alive(tx)

\* try_recv and recv_timeout return Disconnected: no message is waiting and
\* every sender has been dropped
Disconnected(queue, tx) == queue = <<>> /\ ~Alive(tx)

\* the variables SpecStop leaves alone
stop_rest == <<msg, twin, subs, clock_vars, tick_vars, load_vars>>

\* a try_send of the message on a live sender; clone tells whether the sender
\* is a clone made for the send, which is dropped when the send fails
StopSend(message, clone) ==
    /\ Len(accepted) < MaxStopSends
    /\ LET r == TrySend(cmd_queue, message)
       IN /\ cmd_queue' = r.queue
          /\ send_result' = r.result
          /\ accepted' = IF r.result = "Ok" THEN Append(accepted, message) ELSE accepted
          /\ client_seq' = IF r.result = "Ok" /\ message.type = "ClientMessage"
                           THEN [client_seq EXCEPT ![message.session] = message.sequence]
                           ELSE client_seq
          /\ senders' = IF clone /\ r.result = "Ok"
                        THEN [senders EXCEPT !.clones = @ + 1] ELSE senders
    /\ UNCHANGED <<workspace, session_seq, log, pc, run_order, indications, panicked>>
    /\ UNCHANGED <<cmd_loop, processed, ticks_after_drop>>
    /\ UNCHANGED stop_rest

\* EngineHandle::connect: cmd_tx.clone(), then try_send(ConnectSession); the
\* clone becomes the sender of the EngineSession
StopConnect ==
    /\ senders.handle
    /\ session_seq + QueuedConnects < MaxSessions
    /\ StopSend(ConnectSessionMsg, TRUE)

\* EngineSession::update on the sender of a session
StopUpdate ==
    /\ senders.clones > 0
    /\ \E session_id \in DOMAIN client_seq, op \in QueueOps :
          StopSend(ClientMessageMsg(session_id, client_seq[session_id] + 1, op), FALSE)

\* the EngineHandle, or an EngineSession (or a connect under way), is dropped
DropSender ==
    /\ \/ senders.handle /\ senders' = [senders EXCEPT !.handle = FALSE]
       \/ senders.clones > 0 /\ senders' = [senders EXCEPT !.clones = @ - 1]
    /\ UNCHANGED <<workspace, session_seq, log, pc, run_order, indications, panicked>>
    /\ UNCHANGED <<queue_vars, ticks_after_drop>>
    /\ UNCHANGED stop_rest

\* the Ok arms of the two command loops: process_message on the message received
StopRecv ==
    /\ cmd_queue # <<>>
    /\ LET r == Dequeue(cmd_queue)
       IN /\ cmd_queue' = r.queue
          /\ processed' = Append(processed, r.message)
          /\ IF r.message.type = "ConnectSession"
             THEN /\ ConnectSession
                  /\ client_seq' = MapInsert(client_seq, session_seq', 0)
             ELSE /\ ClientUpdate(r.message.session, r.message.sequence, r.message.op)
                  /\ UNCHANGED client_seq
    /\ UNCHANGED <<cmd_loop, send_result, accepted, stop_vars>>
    /\ UNCHANGED stop_rest

\* the drain loop meets TryRecvError::Empty and Engine::run goes on to wait
StopDrained ==
    /\ ~panicked
    /\ pc = "commands"
    /\ cmd_loop = "drain"
    /\ cmd_queue = <<>>
    /\ ~Disconnected(cmd_queue, senders)
    /\ cmd_loop' = "wait"
    /\ UNCHANGED <<workspace, session_seq, log, pc, run_order, indications, panicked>>
    /\ UNCHANGED <<cmd_queue, send_result, client_seq, accepted, processed, stop_vars>>
    /\ UNCHANGED stop_rest

\* the Disconnected arms of the two command loops: Engine::run returns
StopReturn ==
    /\ ~panicked
    /\ pc = "commands"
    /\ Disconnected(cmd_queue, senders)
    /\ pc' = "stopped"
    /\ UNCHANGED <<workspace, session_seq, log, run_order, indications, panicked>>
    /\ UNCHANGED <<queue_vars, stop_vars>>
    /\ UNCHANGED stop_rest

\* the wait loop ends: the scheduled end has come, or recv_timeout returned
\* Timeout while a sender was alive
StopNextTick ==
    /\ cmd_loop = "wait"
    /\ NextTick
    /\ cmd_loop' = "drain"
    /\ UNCHANGED <<cmd_queue, send_result, client_seq, accepted, processed, stop_vars>>
    /\ UNCHANGED stop_rest

\* run_tick and the indications of the tick
StopTick ==
    /\ \/ /\ RunTick
          /\ ticks_after_drop' = IF Alive(senders) THEN 0 ELSE ticks_after_drop + 1
       \/ /\ SendIndications
          /\ UNCHANGED ticks_after_drop
    /\ UNCHANGED <<queue_vars, senders>>
    /\ UNCHANGED stop_rest

\* the steps of the engine thread
EngineStop ==
    \/ StopRecv
    \/ StopDrained
    \/ StopReturn
    \/ StopNextTick
    \/ StopTick

NextStop ==
    \/ StopConnect
    \/ StopUpdate
    \/ DropSender
    \/ EngineStop

\* the engine thread keeps running until it returns
SpecStop == Init /\ [][NextStop]_vars /\ WF_vars(EngineStop)

----------------------------------------------------------------------------
(* SpecRoute: run_tick with its buffers and the input refs it hands to the *)
(* modules on record                                                       *)

\* the commands sent in SpecRoute: amplifiers, and connections between their
\* first terminals
RouteOps ==
    [op : {"CreateModule"}, params : ModuleParams({"Amplifier"}), geometry : GeometryValues]
    \cup [op : {"DeleteModule"}, id : ModuleIds]
    \cup [op : {"CreateConnection"}, input : ModuleIds \X {0}, output : ModuleIds \X {0}]
    \cup [op : {"DeleteConnection"}, input : ModuleIds \X {0}]

\* the variables SpecRoute leaves alone
route_rest == <<msg, twin, subs, queue_vars, stop_vars, load_vars, owners>>

RouteConnect ==
    /\ Backlog
    /\ session_seq < MaxSessions
    /\ ConnectSession
    /\ UNCHANGED <<clock_vars, buffers, input_refs>>
    /\ UNCHANGED route_rest

RouteUpdate ==
    /\ Backlog
    /\ \E session_id \in 1..session_seq, op \in RouteOps : ClientUpdate(session_id, 1, op)
    /\ UNCHANGED <<clock_vars, buffers, input_refs>>
    /\ UNCHANGED route_rest

\* the top of the loop of Engine::run and run_tick(this_tick): the buffers
\* and the input refs of the execution loop are kept
RouteRunTick ==
    /\ tick < MaxTicks
    /\ RunTick
    /\ tick' = tick + 1
    /\ LET executed == RunModules(workspace, run_order', tick, buffers)
       IN /\ buffers' = executed.buffers
          /\ input_refs' = executed.input_refs
    /\ UNCHANGED <<scheduled_tick_end, now, tick_hist>>
    /\ UNCHANGED route_rest

\* the indications of the tick, and the end of the command loops
RouteNextTick ==
    /\ Backlog
    /\ (SendIndications \/ NextTick)
    /\ UNCHANGED <<clock_vars, buffers, input_refs>>
    /\ UNCHANGED route_rest

RouteObserve ==
    /\ Observe
    /\ UNCHANGED <<clock_vars, buffers, input_refs>>
    /\ UNCHANGED route_rest

NextRoute ==
    \/ RouteConnect
    \/ RouteUpdate
    \/ RouteRunTick
    \/ RouteNextTick
    \/ RouteObserve

SpecRoute == Init /\ [][NextRoute]_vars

----------------------------------------------------------------------------
(* SpecTick: sessions send through the command queue while the engine runs *)
(* ticks of modules that return indications; log is the whole stream of    *)
(* events and owners tells where each event came from                      *)

Meter == [kind |-> MeterKind, value |-> 0]

\* the commands of the first session, in the order in which it sends them:
\* two meters, a connection from the first to the second, and the deletion
\* of the first
TickOps ==
    <<[op |-> "CreateModule", params |-> Meter, geometry |-> 0],
      [op |-> "CreateModule", params |-> Meter, geometry |-> 0],
      [op |-> "CreateConnection", input |-> <<2, 0>>, output |-> <<1, 0>>],
      [op |-> "DeleteModule", id |-> 1]>>

\* the commands the session sends, in order; the sessions after the first
\* delete the second module and then the first
SessionOps(session_id) ==
    IF session_id = 1 THEN TickOps
    ELSE <<[op |-> "DeleteModule", id |-> 2], [op |-> "DeleteModule", id |-> 1]>>

\* the origin of the events of a tick: no session has the id 0
TickOwner(this_tick) == <<0, this_tick>>

\* the variables SpecTick leaves alone
tick_rest == <<msg, twin, subs, cmd_loop, scheduled_tick_end, now, tick_hist,
               stop_vars, load_vars, buffers, input_refs>>

\* EngineHandle::connect, with no message waiting before its ConnectSession
TickConnect ==
    /\ session_seq < MaxTickSessions
    /\ cmd_queue = <<>>
    /\ ConnectSession
    /\ client_seq' = MapInsert(client_seq, session_seq', 0)
    /\ UNCHANGED <<cmd_queue, send_result, accepted, processed, tick, owners>>
    /\ UNCHANGED tick_rest

\* EngineSession::update: the session sends its next message
TickSend ==
    /\ Len(accepted) < MaxTickSends
    /\ \E session_id \in DOMAIN client_seq :
          LET sequence == client_seq[session_id] + 1
              message == ClientMessageMsg(session_id, sequence,
                                          SessionOps(session_id)[sequence])
              r == TrySend(cmd_queue, message)
          IN /\ sequence \in DOMAIN SessionOps(session_id)
             /\ cmd_queue' = r.queue
             /\ send_result' = r.result
             /\ accepted' = IF r.result = "Ok" THEN Append(accepted, message) ELSE accepted
             /\ client_seq' = IF r.result = "Ok"
                              THEN [client_seq EXCEPT ![session_id] = message.sequence]
                              ELSE client_seq
    /\ UNCHANGED <<workspace, session_seq, log, pc, run_order, indications, panicked>>
    /\ UNCHANGED <<processed, tick, owners>>
    /\ UNCHANGED tick_rest

\* the Ok arms of the two command loops: client_update on the message received
TickRecv ==
    /\ cmd_queue # <<>>
    /\ LET r == Dequeue(cmd_queue)
       IN /\ cmd_queue' = r.queue
          /\ processed' = Append(processed, r.message)
          /\ ClientUpdate(r.message.session, r.message.sequence, r.message.op)
          /\ owners' = owners \o [i \in 1..(Len(log') - Len(log)) |->
                                    <<r.message.session, r.message.sequence>>]
    /\ UNCHANGED <<send_result, client_seq, accepted, tick>>
    /\ UNCHANGED tick_rest

\* the top of the loop of Engine::run and run_tick(this_tick)
TickRunTick ==
    /\ tick < MaxTicks
    /\ RunTick
    /\ tick' = tick + 1
    /\ UNCHANGED <<cmd_queue, send_result, client_seq, accepted, processed, owners>>
    /\ UNCHANGED tick_rest

\* run_tick has returned: the indications are installed and sent
TickIndications ==
    /\ SendIndications
    /\ owners' = owners \o [i \in 1..(Len(log') - Len(log)) |-> TickOwner(tick - 1)]
    /\ UNCHANGED <<cmd_queue, send_result, client_seq, accepted, processed, tick>>
    /\ UNCHANGED tick_rest

\* the command loops end and the loop of Engine::run starts over
TickNextTick ==
    /\ NextTick
    /\ UNCHANGED <<cmd_queue, send_result, client_seq, accepted, processed, tick, owners>>
    /\ UNCHANGED tick_rest

NextTickSpec ==
    \/ TickConnect
    \/ TickSend
    \/ TickRecv
    \/ TickRunTick
    \/ TickIndications
    \/ TickNextTick

SpecTick == Init /\ [][NextTickSpec]_vars

----------------------------------------------------------------------------
(* SpecFanout: sessions connect, each with its snapshot and its receiver of *)
(* the event broadcast; log is the whole stream of events sent on log_tx   *)

\* dump_state that leaves the connections out of the snapshot
DumpStateNoConnections(ws) ==
    [modules |-> [id \in DOMAIN ws.modules |-> ModuleParamsOf(ws.modules[id])],
     inputs |-> [id \in DOMAIN ws.modules |-> ModuleInputs(ws.modules[id].kind)],
     outputs |-> [id \in DOMAIN ws.modules |-> ModuleOutputs(ws.modules[id].kind)],
     geometry |-> ws.geometry,
     indications |-> ws.indications,
     connections |-> <<>>]

\* Engine::dump_state: the WorkspaceState of the workspace (each list of
\* pairs as the map it lists)
DumpState(ws) ==
    [modules |-> [id \in DOMAIN ws.modules |-> ModuleParamsOf(ws.modules[id])],
     inputs |-> [id \in DOMAIN ws.modules |-> ModuleInputs(ws.modules[id].kind)],
     outputs |-> [id \in DOMAIN ws.modules |-> ModuleOutputs(ws.modules[id].kind)],
     geometry |-> ws.geometry,
     indications |-> ws.indications,
     connections |-> ws.connections]

\* the last n elements of a sequence
LastN(seq, n) == IF Len(seq) <= n THEN seq ELSE SubSeq(seq, Len(seq) - n + 1, Len(seq))

\* the positions first+1 .. last of the event stream
Positions(first, last) == [i \in 1..(last - first) |-> first + i]

\* a broadcast that puts the new events in front of the waiting ones
BroadcastInFront(sub, first, last) ==
    [sub EXCEPT !.pending = LastN(Positions(first, last) \o @, BroadcastCapacity),
                !.lagged = @ \/ Len(sub.pending) + (last - first) > BroadcastCapacity]

\* log_tx.send for the events at the positions first+1 .. last, as one
\* receiver sees it: the events wait in the receiver behind those already
\* waiting; a receiver more than BroadcastCapacity events behind loses the
\* oldest
Broadcast(sub, first, last) ==
    [sub EXCEPT !.pending = LastN(@ \o Positions(first, last), BroadcastCapacity),
                !.lagged = @ \/ Len(sub.pending) + (last - first) > BroadcastCapacity]

\* the commands sent in SpecFanout
FanoutOps ==
    {[op |-> "CreateModule", params |-> [kind |-> "Amplifier", value |-> 0], geometry |-> 0],
     [op |-> "CreateConnection", input |-> <<1, 0>>, output |-> <<1, 0>>],
     [op |-> "DeleteModule", id |-> 1]}

\* the commands processed so far
Commands == Cardinality({i \in DOMAIN log : log[i].type = "Sync"})

\* EngineHandle::connect: connect_session gives the session its id, its
\* receiver (log_tx.subscribe) and its snapshot (dump_state)
FanoutConnect ==
    /\ session_seq < MaxSubscribers
    /\ ConnectSession
    /\ subs' = MapInsert(subs, session_seq',
                         [snapshot |-> DumpState(workspace), start |-> Len(log),
                          pending |-> <<>>, received |-> <<>>, lagged |-> FALSE])
    /\ UNCHANGED <<msg, twin>>
    /\ UNCHANGED <<queue_vars, clock_vars, rest_vars>>

\* EngineSession::update by the first session: client_update sends its events
\* to every receiver
FanoutUpdate ==
    /\ Commands < MaxCommands
    /\ session_seq >= 1
    /\ \E op \in FanoutOps : ClientUpdate(1, 1, op)
    /\ subs' = [s \in DOMAIN subs |-> Broadcast(subs[s], Len(log), Len(log'))]
    /\ UNCHANGED <<msg, twin>>
    /\ UNCHANGED <<queue_vars, clock_vars, rest_vars>>

\* run_tick and the rest of Engine::run: the indications go to every receiver
FanoutTick ==
    /\ (RunTick \/ SendIndications \/ NextTick)
    /\ subs' = [s \in DOMAIN subs |-> Broadcast(subs[s], Len(log), Len(log'))]
    /\ UNCHANGED <<msg, twin>>
    /\ UNCHANGED <<queue_vars, clock_vars, rest_vars>>

\* a session takes the next event from its receiver
FanoutRecv ==
    /\ \E s \in DOMAIN subs :
          /\ subs[s].pending # <<>>
          /\ subs' = [subs EXCEPT ![s].pending = Tail(@),
                                  ![s].received = Append(@, Head(subs[s].pending))]
    /\ UNCHANGED <<workspace, session_seq, log, pc, run_order, indications, panicked>>
    /\ UNCHANGED <<msg, twin>>
    /\ UNCHANGED <<queue_vars, clock_vars, rest_vars>>

NextFanout ==
    \/ FanoutConnect
    \/ FanoutUpdate
    \/ FanoutTick
    \/ FanoutRecv

SpecFanout == Init /\ [][NextFanout]_vars

----------------------------------------------------------------------------
(* SpecTiming: Engine::run against the clock. Time passes while the engine *)
(* thread computes and while it waits in recv_timeout.                     *)

\* the deadline as tick * TICK_BUDGET, with the budget a whole number of ms
ScheduledTickEndByBudget(n) == n * (1000 \div TICKS_PER_SECOND)

\* scheduled_tick_end, in ms after start, computed from the tick counter n
\* (the counter after tick += 1)
ScheduledTickEnd(n) == (n * 1000) \div TICKS_PER_SECOND

\* a wait loop that calls recv_timeout whatever the time
WaitAlways(time, tick_end) == TRUE

\* the wait loop goes on to recv_timeout: not `now >= scheduled_tick_end`
WaitForCommands(time, tick_end) == time < tick_end

\* the command sent in SpecTiming; no module is created, so it is processed
\* to its Sync alone
TimedOps == {[op |-> "DeleteConnection", input |-> <<1, 0>>]}

\* time passes
Advance ==
    /\ now < MaxNow
    /\ now' = now + 1
    /\ UNCHANGED <<workspace, session_seq, log, pc, run_order, indications, panicked>>
    /\ UNCHANGED <<msg, twin, rest_vars, subs, queue_vars, tick, scheduled_tick_end, tick_hist>>

\* the top of the loop of Engine::run and run_tick(this_tick)
TimedRunTick ==
    /\ RunTick
    /\ tick' = tick + 1
    /\ scheduled_tick_end' = ScheduledTickEnd(tick')
    /\ tick_hist' = [executed |-> tick, late |-> FALSE, blocked |-> FALSE]
    /\ UNCHANGED <<msg, twin, rest_vars, subs, queue_vars, now>>

\* run_tick has returned: the indications are sent and the drain loop begins
TimedIndications ==
    /\ SendIndications
    /\ tick_hist' = [tick_hist EXCEPT !.late = (now >= scheduled_tick_end)]
    /\ cmd_loop' = "drain"
    /\ UNCHANGED <<msg, twin, rest_vars, subs, cmd_queue, send_result, client_seq, accepted, processed>>
    /\ UNCHANGED <<tick, scheduled_tick_end, now>>

\* process_message on a message that a session has sent
TimedProcess ==
    \/ session_seq < MaxSessions /\ ConnectSession
    \/ \E session_id \in 1..session_seq, op \in TimedOps : ClientUpdate(session_id, 1, op)

\* the drain loop: try_recv returns a message that was waiting
TimedDrainRecv ==
    /\ Backlog
    /\ cmd_loop = "drain"
    /\ TimedProcess
    /\ UNCHANGED <<msg, twin, rest_vars, subs, queue_vars, clock_vars>>

\* the drain loop: try_recv returns Empty
TimedDrained ==
    /\ ~panicked
    /\ pc = "commands"
    /\ cmd_loop = "drain"
    /\ cmd_loop' = "wait"
    /\ UNCHANGED <<workspace, session_seq, log, pc, run_order, indications, panicked>>
    /\ UNCHANGED <<msg, twin, rest_vars, subs, cmd_queue, send_result, client_seq, accepted, processed>>
    /\ UNCHANGED clock_vars

\* the wait loop: recv_timeout(scheduled_tick_end - now) returns a message
TimedWaitRecv ==
    /\ Backlog
    /\ cmd_loop = "wait"
    /\ WaitForCommands(now, scheduled_tick_end)
    /\ TimedProcess
    /\ tick_hist' = [tick_hist EXCEPT !.blocked = TRUE]
    /\ UNCHANGED <<msg, twin, rest_vars, subs, queue_vars, tick, scheduled_tick_end, now>>

\* the wait loop: recv_timeout returns Timeout at the scheduled end, and the
\* loop of Engine::run starts over
TimedTimeout ==
    /\ cmd_loop = "wait"
    /\ WaitForCommands(now, scheduled_tick_end)
    /\ NextTick
    /\ now' = IF now < scheduled_tick_end THEN scheduled_tick_end ELSE now
    /\ now' <= MaxNow
    /\ tick_hist' = [tick_hist EXCEPT !.blocked = TRUE]
    /\ UNCHANGED <<msg, twin, rest_vars, subs, queue_vars, tick, scheduled_tick_end>>

\* the wait loop: now >= scheduled_tick_end, and the loop of Engine::run
\* starts over
TimedBreak ==
    /\ cmd_loop = "wait"
    /\ now >= scheduled_tick_end
    /\ NextTick
    /\ UNCHANGED <<msg, twin, rest_vars, subs, queue_vars, clock_vars>>

\* the subscriber takes the events
TimedObserve ==
    /\ Observe
    /\ UNCHANGED <<msg, twin, rest_vars, subs, queue_vars, clock_vars>>

NextTiming ==
    \/ Advance
    \/ TimedRunTick
    \/ TimedIndications
    \/ TimedDrainRecv
    \/ TimedDrained
    \/ TimedWaitRecv
    \/ TimedTimeout
    \/ TimedBreak
    \/ TimedObserve

SpecTiming == Init /\ [][NextTiming]_vars

----------------------------------------------------------------------------
(* SpecLoad: Workspace::load on a saved layout *)

\* Option::None in the list of inputs of a saved module
None == <<>>

\* the OutputIds a saved input may name: existing and missing modules, and an
\* output index that no module has
SavedOutputs == {None} \cup ((1..(MaxSavedModules + 1)) \X {0}) \cup {<<1, 3>>}

\* save::Module: params, geometry and the per-input optional OutputIds
SavedModules ==
    [params : ModuleParams(ModuleKinds), geometry : GeometryValues,
     inputs : SavedOutputs \X {None, <<1, 0>>}]

\* save::Workspace: the module id sequence and the saved modules by id
SavedWorkspaces ==
    UNION {[module_seq : {MaxSavedModules}, modules : [ids -> SavedModules]] :
              ids \in SUBSET (1..MaxSavedModules)}

\* the first loop of Workspace::load: modules, geometry and indications
LoadModules(saved) ==
    [module_seq |-> saved.module_seq,
     modules |-> [id \in DOMAIN saved.modules |-> ModuleCreate(saved.modules[id].params).module],
     geometry |-> [id \in DOMAIN saved.modules |-> saved.modules[id].geometry],
     connections |-> <<>>,
     indications |-> [id \in DOMAIN saved.modules |->
                        ModuleCreate(saved.modules[id].params).indication]]

RECURSIVE LoadInputs(_, _, _, _)

\* the inner loop of Workspace::load over the saved inputs of one module,
\* from the input index input_idx: connect, whatever it returns
LoadInputs(ws, module_id, inputs, input_idx) ==
    IF input_idx >= Len(inputs) THEN ws
    ELSE LET output_id == inputs[input_idx + 1]
             next == IF output_id # None
                     THEN Connect(ws, <<module_id, input_idx>>, output_id).ws
                     ELSE ws
         IN LoadInputs(next, module_id, inputs, input_idx + 1)

RECURSIVE LoadConnections(_, _, _, _)

\* the second loop of Workspace::load over the saved modules, met in the
\* order given, from its k-th element
LoadConnections(ws, saved, order, k) ==
    IF k > Len(order) THEN ws
    ELSE LoadConnections(LoadInputs(ws, order[k], saved.modules[order[k]].inputs, 0),
                         saved, order, k + 1)

\* a load that leaves out the inputs of the saved module it meets first
WorkspaceLoadAfterFirst(saved, order) == LoadConnections(LoadModules(saved), saved, order, 2)

\* Workspace::load; order is the order in which the saved modules are iterated
WorkspaceLoad(saved, order) == LoadConnections(LoadModules(saved), saved, order, 1)

InitLoad ==
    /\ InitEngine
    /\ pc = "load"
    /\ save \in SavedWorkspaces

\* Workspace::load(&save)
LoadWorkspace ==
    /\ pc = "load"
    /\ \E order \in Orders(DOMAIN save.modules) : workspace' = WorkspaceLoad(save, order)
    /\ pc' = "loaded"
    /\ UNCHANGED <<session_seq, log, run_order, indications, panicked>>
    /\ UNCHANGED <<msg, twin, queue_vars, subs, clock_vars, save, loaded>>
    /\ UNCHANGED <<stop_vars, tick_vars>>

NextLoad == LoadWorkspace

SpecLoad == InitLoad /\ [][NextLoad]_vars

----------------------------------------------------------------------------
(* SpecRoundTrip: the workspace built by client commands is saved, loaded *)
(* again, and the engine goes on from the loaded workspace                *)

\* Default::default() of the window geometry
DefaultGeometry == 0

\* a save that starts the module id sequence over
WorkspaceSaveFromStart(ws) ==
    [module_seq |-> 0,
     modules |-> [module_id \in DOMAIN ws.modules |->
                    [params |-> ModuleParamsOf(ws.modules[module_id]),
                     geometry |-> IF module_id \in DOMAIN ws.geometry
                                  THEN ws.geometry[module_id] ELSE DefaultGeometry,
                     inputs |-> [idx \in DOMAIN ModuleInputs(ws.modules[module_id].kind) |->
                                   IF <<module_id, idx - 1>> \in DOMAIN ws.connections
                                   THEN ws.connections[<<module_id, idx - 1>>]
                                   ELSE None]]]]

\* Workspace::save: the module id sequence and, for every module, its params,
\* its geometry (the default when the geometry map has none) and, for every
\* input of the module, the connected output or None
WorkspaceSave(ws) ==
    [module_seq |-> ws.module_seq,
     modules |-> [module_id \in DOMAIN ws.modules |->
                    [params |-> ModuleParamsOf(ws.modules[module_id]),
                     geometry |-> IF module_id \in DOMAIN ws.geometry
                                  THEN ws.geometry[module_id] ELSE DefaultGeometry,
                     inputs |-> [idx \in DOMAIN ModuleInputs(ws.modules[module_id].kind) |->
                                   IF <<module_id, idx - 1>> \in DOMAIN ws.connections
                                   THEN ws.connections[<<module_id, idx - 1>>]
                                   ELSE None]]]]

\* the commands of the sessions: amplifiers with params and geometry other
\* than the defaults, video mixers, updates of the module 1, deletions and
\* connections
RoundTripOps ==
    {[op |-> "CreateModule", params |-> [kind |-> "Amplifier", value |-> 1], geometry |-> 1],
     [op |-> "CreateModule", params |-> [kind |-> "VideoMixer", value |-> 0], geometry |-> 0]}
    \cup [op : {"UpdateModuleParams"}, id : {1},
          params : {[kind |-> "Amplifier", value |-> 0]}]
    \cup [op : {"UpdateWindowGeometry"}, id : {1}, geometry : {0}]
    \cup [op : {"DeleteModule"}, id : ModuleIds]
    \cup [op : {"CreateConnection"}, input : ModuleIds \X {0}, output : ModuleIds \X {0}]
    \cup [op : {"DeleteConnection"}, input : ModuleIds \X {0}]

\* the variables SpecRoundTrip leaves alone
roundtrip_rest == <<msg, twin, subs, queue_vars, clock_vars, stop_vars, tick_vars>>

RoundTripConnect ==
    /\ Backlog
    /\ session_seq < MaxSessions
    /\ ConnectSession
    /\ UNCHANGED <<load_vars, roundtrip_rest>>

RoundTripUpdate ==
    /\ Backlog
    /\ \E session_id \in 1..session_seq, op \in RoundTripOps : ClientUpdate(session_id, 1, op)
    /\ UNCHANGED <<load_vars, roundtrip_rest>>

RoundTripObserve ==
    /\ Observe
    /\ UNCHANGED <<load_vars, roundtrip_rest>>

\* a tick: run_tick, the indications, and the next turn of the loop
RoundTripTick ==
    /\ Backlog
    /\ RunTick \/ SendIndications \/ NextTick
    /\ UNCHANGED <<load_vars, roundtrip_rest>>

\* Workspace::save on the workspace of the engine, between two commands
SaveWorkspace ==
    /\ Backlog
    /\ ~panicked
    /\ pc = "commands"
    /\ save' = WorkspaceSave(workspace)
    /\ pc' = "saved"
    /\ UNCHANGED <<workspace, session_seq, log, run_order, indications, panicked>>
    /\ UNCHANGED <<loaded, roundtrip_rest>>

\* Workspace::load(&save) on what Workspace::save returned
LoadSaved ==
    /\ pc = "saved"
    /\ \E order \in Orders(DOMAIN save.modules) : loaded' = WorkspaceLoad(save, order)
    /\ pc' = "loaded"
    /\ UNCHANGED <<workspace, session_seq, log, run_order, indications, panicked>>
    /\ UNCHANGED <<save, roundtrip_rest>>

\* the engine goes on with the loaded workspace, which is moved into it
Restart ==
    /\ pc = "loaded"
    /\ workspace' = loaded
    /\ save' = NoSave
    /\ loaded' = WorkspaceNew
    /\ pc' = "commands"
    /\ UNCHANGED <<session_seq, log, run_order, indications, panicked>>
    /\ UNCHANGED roundtrip_rest

NextRoundTrip ==
    \/ RoundTripConnect
    \/ RoundTripUpdate
    \/ RoundTripObserve
    \/ RoundTripTick
    \/ SaveWorkspace
    \/ LoadSaved
    \/ Restart

SpecRoundTrip == Init /\ [][NextRoundTrip]_vars

----------------------------------------------------------------------------
(* Properties of the workspace and of the run order *)

Modules == DOMAIN workspace.modules
Connections == workspace.connections

\* the given connection joins two existing terminals of one line type
WellTyped(ws, input_id) ==
    /\ input_id[1] \in DOMAIN ws.modules
    /\ input_id[2] + 1 \in DOMAIN ModuleInputs(ws.modules[input_id[1]].kind)
    /\ LET output_id == ws.connections[input_id]
       IN /\ output_id[1] \in DOMAIN ws.modules
          /\ output_id[2] + 1 \in DOMAIN ModuleOutputs(ws.modules[output_id[1]].kind)
          /\ ModuleInputs(ws.modules[input_id[1]].kind)[input_id[2] + 1]
               = ModuleOutputs(ws.modules[output_id[1]].kind)[output_id[2] + 1]

\* C1: referential integrity. After any sequence of client commands every
\* connection input -> output refers to an existing module and an in-range
\* terminal index at both ends, and the two terminals have the same line type.
C1_ReferentialIntegrity ==
    \A input_id \in DOMAIN Connections : WellTyped(workspace, input_id)

\* a DeleteModule has just cascaded over a connection and another connection
\* is still in the workspace
C1_Witness ==
    /\ Len(log) >= 3
    /\ log[1].type = "DeleteConnection"
    /\ \E i \in DOMAIN log : log[i].type = "DeleteModule"
    /\ DOMAIN Connections # {}

\* C2: execution once per tick. The modules run by run_tick are exactly the
\* modules of the workspace at tick start, each exactly once in the run order
\* (the workspace does not change between RunTick and SendIndications).
C2_ExecutedOncePerTick ==
    (pc = "indications" /\ ~panicked) =>
        /\ Range(run_order) = Modules
        /\ Len(run_order) = Cardinality(Modules)

RECURSIVE Downstream(_, _)

\* the modules that consume, directly or through other modules, an output of
\* a module of S, and S itself
Downstream(ws, S) ==
    LET T == S \cup {input_id[1] : input_id \in
                        {i \in DOMAIN ws.connections : ws.connections[i][1] \in S}}
    IN IF T = S THEN S ELSE Downstream(ws, T)

\* the edge from producer n to consumer m lies on a directed cycle
OnCycle(ws, n, m) == n \in Downstream(ws, {m})

Precedes(order, n, m) ==
    \E i, j \in DOMAIN order : i < j /\ order[i] = n /\ order[j] = m

\* C3: dependency order. For every connection InputId(m, _) -> OutputId(n, _)
\* with n # m whose edge is not on a directed cycle, n comes before m in the
\* run order of the tick.
C3_DependencyOrder ==
    (pc = "indications" /\ ~panicked) =>
        \A input_id \in DOMAIN Connections :
            LET m == input_id[1]
                n == Connections[input_id][1]
            IN (n # m /\ ~OnCycle(workspace, n, m)) => Precedes(run_order, n, m)

RECURSIVE Ascending(_)

\* the elements of a set of ids in ascending order
Ascending(S) ==
    IF S = {} THEN <<>>
    ELSE LET least == CHOOSE x \in S : \A y \in S : x <= y
         IN <<least>> \o Ascending(S \ {least})

\* C6: run-order determinism. The run order of a tick is a function of the
\* graph only: the one obtained by visiting the terminal modules in ascending
\* ModuleId and each module's inputs in ascending index.
C6_RunOrderDeterminism ==
    (pc = "indications" /\ ~panicked) =>
        run_order = Topsort(workspace, Ascending(TerminalModules(workspace))).run_order

\* C22: no panic on client input. Whatever commands the sessions send
\* (module ids that were never created or were deleted, terminal indices out
\* of range, any sequence), interleaved with ticks, the engine thread never
\* panics: the topological walk only looks up modules of the module map, and
\* every module of the run order is in the module map when the execution
\* loop looks it up.
C22_NoPanic ==
    /\ ~panicked
    /\ pc = "indications" => Range(run_order) \subseteq Modules

\* a tick has walked from module 2 through its connection to module 1 and
\* has run both
C22_Witness ==
    /\ pc = "indications"
    /\ ~panicked
    /\ run_order = <<1, 2>>
    /\ <<2, 0>> \in DOMAIN Connections
    /\ Connections[<<2, 0>>] = <<1, 0>>

----------------------------------------------------------------------------
(* Properties of the events of one command, over SpecCmd *)

\* the step is the processing of the ClientMessage msg'
Processed ==
    /\ msg' # NoMsg
    /\ msg' # msg \/ log' # log \/ workspace' # workspace

\* the events the step sent on log_tx
NewEvents == SubSeq(log', Len(log) + 1, Len(log'))

IsServerUpdate(event) == event.type # "Sync"

\* C4: Sync causality. Every ServerUpdate that the command with clock
\* c = (session, sequence) produces is emitted before Sync(c).
C4_SyncCausality ==
    [][Processed =>
        \E j \in DOMAIN NewEvents :
            /\ NewEvents[j] = Sync(msg'.session, msg'.sequence)
            /\ \A i \in DOMAIN NewEvents : IsServerUpdate(NewEvents[i]) => i < j]_vars

\* a command's Sync stands in the log behind two ServerUpdates of the command
C4_Witness ==
    /\ msg # NoMsg
    /\ Len(log) = 3
    /\ IsServerUpdate(log[1]) /\ IsServerUpdate(log[2])
    /\ log[3] = Sync(msg.session, msg.sequence)

\* the positions of the Sync events in a sequence of events
SyncsOf(events) == {i \in DOMAIN events : events[i].type = "Sync"}

\* C5: every ClientMessage results in exactly one Sync, which carries exactly
\* (sending session id, the message's sequence), whatever the op and whether
\* or not it produced a ServerUpdate; a ConnectSession produces no Sync.
C5_OneSyncPerMessage ==
    [][/\ Processed =>
            \E j \in DOMAIN NewEvents :
                /\ SyncsOf(NewEvents) = {j}
                /\ NewEvents[j].clock = <<msg'.session, msg'.sequence>>
       /\ session_seq' # session_seq => log' = log]_vars

\* a message with sequence 2 produced no ServerUpdate (it deleted an absent
\* connection) and its Sync is the whole of the log
C5_Witness ==
    /\ msg.session = session_seq /\ msg.sequence = 2
    /\ msg.op.op = "DeleteConnection"
    /\ log = <<Sync(msg.session, 2)>>

\* the two terminals exist and have the same line type
TypeChecks(ws, input_id, output_id) ==
    /\ input_id[1] \in DOMAIN ws.modules
    /\ output_id[1] \in DOMAIN ws.modules
    /\ input_id[2] + 1 \in DOMAIN ModuleInputs(ws.modules[input_id[1]].kind)
    /\ output_id[2] + 1 \in DOMAIN ModuleOutputs(ws.modules[output_id[1]].kind)
    /\ ModuleInputs(ws.modules[input_id[1]].kind)[input_id[2] + 1]
         = ModuleOutputs(ws.modules[output_id[1]].kind)[output_id[2] + 1]

\* C8: connection replacement. A CreateConnection(input, output) that
\* typechecks replaces the edge of the input; on an input that has a
\* connection it emits exactly DeleteConnection(input), CreateConnection(input,
\* output), Sync, and on an input without one exactly CreateConnection(input,
\* output), Sync.
C8_ConnectionReplacement ==
    [][(/\ Processed
        /\ msg'.op.op = "CreateConnection"
        /\ TypeChecks(workspace, msg'.op.input, msg'.op.output)) =>
            LET input_id == msg'.op.input
                output_id == msg'.op.output
                sync == Sync(msg'.session, msg'.sequence)
            IN /\ DOMAIN workspace'.connections = DOMAIN Connections \cup {input_id}
               /\ \A i \in DOMAIN workspace'.connections :
                     workspace'.connections[i] =
                        IF i = input_id THEN output_id ELSE Connections[i]
               /\ NewEvents =
                     IF input_id \in DOMAIN Connections
                     THEN <<EvDeleteConnection(input_id),
                            EvCreateConnection(input_id, output_id), sync>>
                     ELSE <<EvCreateConnection(input_id, output_id), sync>>]_vars

\* an input that was connected to one output has been connected to another
C8_Witness ==
    /\ msg.op.op = "CreateConnection"
    /\ Len(log) = 3
    /\ log[1] = EvDeleteConnection(msg.op.input)
    /\ log[2] = EvCreateConnection(msg.op.input, msg.op.output)
    /\ Connections[msg.op.input] = msg.op.output

\* C9: rejected connection. A CreateConnection whose input terminal does not
\* exist, whose output terminal does not exist, or whose line types differ
\* emits only its Sync and leaves the whole workspace unchanged.
C9_RejectedConnection ==
    [][(/\ Processed
        /\ msg'.op.op = "CreateConnection"
        /\ ~TypeChecks(workspace, msg'.op.input, msg'.op.output)) =>
            /\ NewEvents = <<Sync(msg'.session, msg'.sequence)>>
            /\ workspace' = workspace]_vars

\* a CreateConnection between two existing terminals of different line types
\* was rejected, and the connection the input already had is still there
C9_Witness ==
    /\ msg.op.op = "CreateConnection"
    /\ log = <<Sync(msg.session, msg.sequence)>>
    /\ InputType(workspace, msg.op.input) # NoType
    /\ OutputType(workspace, msg.op.output) # NoType
    /\ InputType(workspace, msg.op.input) # OutputType(workspace, msg.op.output)
    /\ msg.op.input \in DOMAIN Connections
    /\ Connections[msg.op.input] # msg.op.output

\* the connections with the module id at their input or at their output
Touching(ws, id) ==
    {i \in DOMAIN ws.connections : i[1] = id \/ ws.connections[i][1] = id}

Amp == [kind |-> "Amplifier", value |-> 0]

\* the workspaces of the scenario: module A, then module B, then B.in0 <- A.out0
ScenarioA ==
    [module_seq |-> 1,
     modules |-> (1 :> [kind |-> "Amplifier", params |-> 0]),
     geometry |-> (1 :> 0),
     connections |-> <<>>,
     indications |-> (1 :> 0)]
ScenarioAB ==
    [module_seq |-> 2,
     modules |-> (1 :> [kind |-> "Amplifier", params |-> 0]) @@ (2 :> [kind |-> "Amplifier", params |-> 0]),
     geometry |-> (1 :> 0) @@ (2 :> 0),
     connections |-> <<>>,
     indications |-> (1 :> 0) @@ (2 :> 0)]
ScenarioConnected == [ScenarioAB EXCEPT !.connections = (<<2, 0>> :> <<1, 0>>)]

\* C10: DeleteModule cascade. DeleteModule(id) removes every connection with
\* id at its input or its output, emits one DeleteConnection(input) for each
\* and only then DeleteModule(id) (if the module existed), then Sync;
\* afterwards no connection touches id. And the scenario: create A, create B,
\* connect B.in0 <- A.out0, delete A emits CreateModule(A), CreateModule(B),
\* CreateConnection, DeleteConnection(Input(B, 0)), DeleteModule(A), each
\* command's events followed by its Sync.
C10_DeleteModuleCascade ==
    [][Processed =>
        LET sync == Sync(msg'.session, msg'.sequence)
            op == msg'.op
        IN /\ op.op = "DeleteModule" =>
                LET removed == Touching(workspace, op.id)
                    n == Cardinality(removed)
                    existed == op.id \in Modules
                IN /\ Len(NewEvents) = n + (IF existed THEN 2 ELSE 1)
                   /\ \A i \in 1..n : NewEvents[i].type = "DeleteConnection"
                   /\ {NewEvents[i].input : i \in 1..n} = removed
                   /\ existed => NewEvents[n + 1] = EvDeleteModule(op.id)
                   /\ NewEvents[Len(NewEvents)] = sync
                   /\ DOMAIN workspace'.connections = DOMAIN Connections \ removed
                   /\ Touching(workspace', op.id) = {}
                   /\ op.id \notin DOMAIN workspace'.modules
           /\ (workspace = WorkspaceNew /\ op.op = "CreateModule" /\ op.params = Amp) =>
                /\ NewEvents = <<EvCreateModule(1, Amp, op.geometry, 0), sync>>
                /\ op.geometry = 0 => workspace' = ScenarioA
           /\ (workspace = ScenarioA /\ op.op = "CreateModule" /\ op.params = Amp) =>
                /\ NewEvents = <<EvCreateModule(2, Amp, op.geometry, 0), sync>>
                /\ op.geometry = 0 => workspace' = ScenarioAB
           /\ (workspace = ScenarioAB /\ op = [op |-> "CreateConnection",
                                               input |-> <<2, 0>>, output |-> <<1, 0>>]) =>
                /\ NewEvents = <<EvCreateConnection(<<2, 0>>, <<1, 0>>), sync>>
                /\ workspace' = ScenarioConnected
           /\ (workspace = ScenarioConnected /\ op = [op |-> "DeleteModule", id |-> 1]) =>
                NewEvents = <<EvDeleteConnection(<<2, 0>>), EvDeleteModule(1), sync>>]_vars

\* the scenario has run to its end: A was deleted while B.in0 <- A.out0
C10_Witness ==
    /\ msg.op = [op |-> "DeleteModule", id |-> 1]
    /\ Len(log) = 3
    /\ log[1] = EvDeleteConnection(<<2, 0>>)
    /\ log[2] = EvDeleteModule(1)
    /\ workspace.modules = (2 :> [kind |-> "Amplifier", params |-> 0])
    /\ DOMAIN Connections = {}

\* the ops that name the module they act on
ModuleOps == {"UpdateModuleParams", "UpdateWindowGeometry", "DeleteModule"}

\* C11: updates to unknown or deleted modules are silently ignored. For a
\* module id that is not in the module map (never created, or created and
\* deleted), UpdateModuleParams, UpdateWindowGeometry and DeleteModule emit
\* only the Sync and leave the workspace unchanged.
C11_UnknownModuleIgnored ==
    [][(/\ Processed
        /\ msg'.op.op \in ModuleOps
        /\ msg'.op.id \notin Modules) =>
            /\ NewEvents = <<Sync(msg'.session, msg'.sequence)>>
            /\ workspace' = workspace]_vars

----------------------------------------------------------------------------
(* Properties of the maps of the workspace *)

\* C19: geometry is coextensive with Module. In every reachable state the
\* module ids with a geometry entry, and likewise those with an indication
\* entry, are exactly the module ids of the module map.
C19_GeometryCoextensive ==
    /\ DOMAIN workspace.geometry = Modules
    /\ DOMAIN workspace.indications = Modules

----------------------------------------------------------------------------
(* Properties of the command queue, over SpecQueue *)

\* the step is a try_send of a client
Sent == accepted' # accepted \/ send_result' # send_result

\* C12: backpressure. The command queue holds at most 8 messages; a send
\* attempted while 8 messages are queued fails with Busy and enqueues nothing,
\* any other send is accepted and enqueued (so a send after the engine has
\* dequeued a message succeeds); and every message a send has accepted is
\* eventually processed by the engine: the sessions send finitely many
\* messages, and in the end the messages processed are the messages accepted.
C12_Backpressure ==
    /\ [](Len(cmd_queue) <= 8)
    /\ [][Sent =>
            IF Len(cmd_queue) = 8
            THEN /\ send_result' = "Busy"
                 /\ cmd_queue' = cmd_queue
                 /\ accepted' = accepted
            ELSE /\ send_result' = "Ok"
                 /\ Len(accepted') = Len(accepted) + 1
                 /\ cmd_queue' = Append(cmd_queue, accepted'[Len(accepted')])]_vars
    /\ <>[](processed = accepted)

\* the ninth send met a full queue and was answered Busy
C12_Witness ==
    /\ send_result = "Busy"
    /\ Len(cmd_queue) = 8
    /\ Len(processed) = 1

RECURSIVE SyncSequences(_, _)

\* the ClientSequences of the Syncs of the session in the events, in order
SyncSequences(events, session_id) ==
    IF events = <<>> THEN <<>>
    ELSE (IF Head(events).type = "Sync" /\ Head(events).clock[1] = session_id
          THEN <<Head(events).clock[2]>> ELSE <<>>)
         \o SyncSequences(Tail(events), session_id)

RECURSIVE SubmittedSequences(_, _)

\* the ClientSequences of the ClientMessages of the session among the
\* messages, in order
SubmittedSequences(messages, session_id) ==
    IF messages = <<>> THEN <<>>
    ELSE (IF Head(messages).type = "ClientMessage" /\ Head(messages).session = session_id
          THEN <<Head(messages).sequence>> ELSE <<>>)
         \o SubmittedSequences(Tail(messages), session_id)

----------------------------------------------------------------------------
(* Properties of the shutdown, over SpecStop *)

\* C21: engine termination. Engine::run returns only when every sender of the
\* command queue has been dropped, and then only after every message that was
\* accepted onto the queue has been processed and the Sync of every accepted
\* command has been sent; once every sender is gone the engine begins at most
\* one more tick, and it does return.
C21_Termination ==
    /\ [](pc = "stopped" =>
            /\ ~Alive(senders)
            /\ cmd_queue = <<>>
            /\ processed = accepted
            /\ \A session_id \in 1..session_seq :
                  SyncSequences(log, session_id) = SubmittedSequences(accepted, session_id))
    /\ [](ticks_after_drop <= 1)
    /\ [](~Alive(senders) => <>(pc = "stopped"))
    /\ [][pc' = "stopped" => pc' = pc \/ ~Alive(senders)]_vars

\* the engine has returned after the session sent two commands, dropped its
\* sender while they were queued, and a tick began before they were processed
C21_Witness ==
    /\ pc = "stopped"
    /\ ticks_after_drop = 1
    /\ SyncSequences(log, 1) = <<1, 2>>

----------------------------------------------------------------------------
(* Properties of the buffers of a tick, over SpecRoute *)

\* the module n stands in the run order before its k-th place
RanBefore(order, k, n) == \E j \in 1..(k - 1) : order[j] = n

\* C24: per-tick buffer routing. When module m runs in tick t, its input i is
\* handed the buffer of the connected output if InputId(m, i) is connected to
\* an output of a module that has run earlier in tick t, and Disconnected
\* otherwise (no connection, or a producer that has not run yet because the
\* edge closes a cycle); the buffers hold only what tick t wrote, so no input
\* sees a buffer of an earlier tick.
C24_BufferRouting ==
    (pc = "indications" /\ ~panicked) =>
        LET this_tick == tick - 1
        IN /\ DOMAIN input_refs =
                 UNION {{<<run_order[k], i - 1>> :
                            i \in DOMAIN ModuleInputs(workspace.modules[run_order[k]].kind)} :
                        k \in DOMAIN run_order}
           /\ \A k \in DOMAIN run_order :
                 \A i \in DOMAIN ModuleInputs(workspace.modules[run_order[k]].kind) :
                    LET input_id == <<run_order[k], i - 1>>
                    IN input_refs[input_id] =
                          IF /\ input_id \in DOMAIN Connections
                             /\ RanBefore(run_order, k, Connections[input_id][1])
                          THEN [output |-> Connections[input_id], tick |-> this_tick]
                          ELSE DisconnectedRef
           /\ \A output_id \in DOMAIN buffers : buffers[output_id] = this_tick

\* the tick 2 has run the amplifier 1 and then the amplifier 2, as the tick 1
\* had: the amplifier 2 was handed the buffer the amplifier 1 wrote in this
\* tick, and the amplifier 1, whose input is connected to its own output, was
\* handed Disconnected
C24_Witness ==
    /\ pc = "indications"
    /\ tick = 3
    /\ run_order = <<1, 2>>
    /\ <<1, 0>> \in DOMAIN Connections
    /\ Connections[<<1, 0>>] = <<1, 0>>
    /\ input_refs[<<1, 0>>] = DisconnectedRef
    /\ input_refs[<<2, 0>>] = [output |-> <<1, 0>>, tick |-> 2]
    /\ input_refs[<<2, 1>>] = DisconnectedRef

----------------------------------------------------------------------------
(* Properties of the indications and of the event stream, over SpecTick *)

\* the indication the meter at the k-th place of the run order returns: 2 when
\* its input is connected to an output of a module run before it, else 1
MeterReading(order, k) ==
    LET input_id == <<order[k], 0>>
    IN IF /\ input_id \in DOMAIN Connections
          /\ RanBefore(order, k, Connections[input_id][1])
       THEN 2 ELSE 1

\* the indications the modules of the run order return, in run order
Returned(order) == [k \in DOMAIN order |-> <<order[k], MeterReading(order, k)>>]

\* the events and the indication map that publish the list of indications
Published(list) ==
    /\ log' = log \o [k \in DOMAIN list |->
                         [type |-> "UpdateModuleIndication", id |-> list[k][1],
                          indication |-> list[k][2]]]
    /\ DOMAIN workspace'.indications = DOMAIN workspace.indications \cup
                                          {list[k][1] : k \in DOMAIN list}
    /\ \A id \in DOMAIN workspace'.indications :
          workspace'.indications[id] =
             IF \E k \in DOMAIN list : list[k][1] = id
             THEN list[CHOOSE k \in DOMAIN list : list[k][1] = id][2]
             ELSE workspace.indications[id]

\* C25: indication publication. Every indication a module returns during a
\* tick is collected in run order, once the whole run order has executed; the
\* engine then installs each into the workspace's indication map, overwriting
\* the previous one of that module, and emits them as UpdateModuleIndication
\* in run order; no command is processed in between, so the commands queued
\* during the tick are processed after the tick's indications are out.
C25_IndicationPublication ==
    /\ []((pc = "indications" /\ ~panicked) =>
             /\ \A k \in DOMAIN run_order : workspace.modules[run_order[k]].kind = MeterKind
             /\ indications = Returned(run_order))
    /\ [][pc = "indications" /\ pc' # "indications" =>
             /\ Published(indications)
             /\ pc' = "commands"
             /\ cmd_queue' = cmd_queue
             /\ processed' = processed]_vars
    /\ [][processed' # processed =>
             /\ pc = "commands"
             /\ indications = <<>>
             /\ Len(log) = Len(owners)
             /\ \A t \in 0..(tick - 1) : \A p \in DOMAIN owners' :
                   owners'[p] = <<0, t>> => p <= Len(log)]_vars

\* the tick after the connection of the meter 1 to the meter 2 has run both:
\* their readings 1 and 2 are the last events of the stream, in run order, and
\* in the indication map in place of the readings of the ticks before, while
\* the first session's fourth command waits in the queue
C25_Witness ==
    /\ pc = "commands"
    /\ Len(log) >= 4
    /\ SubSeq(log, Len(log) - 1, Len(log)) =
          <<EvUpdateModuleIndication(1, 1), EvUpdateModuleIndication(2, 2)>>
    /\ \E p \in DOMAIN log : log[p] = EvUpdateModuleIndication(2, 1)
    /\ workspace.indications = (1 :> 1) @@ (2 :> 2)
    /\ Len(cmd_queue) = 1
    /\ cmd_queue[1].op.op = "DeleteModule"

\* C26: event blocks are contiguous. On the event stream the events of one
\* command stand together and end with that command's Sync: from a command's
\* first event to its Sync there is no event of another command and no
\* UpdateModuleIndication of a tick, the Sync is the last event of the
\* command, and the events of a tick are its indications only.
C26_ContiguousBlocks ==
    /\ Len(owners) = Len(log)
    /\ \A p \in DOMAIN log :
          IF owners[p][1] = 0
          THEN log[p].type = "UpdateModuleIndication"
          ELSE /\ log[p].type # "UpdateModuleIndication"
               /\ \E j \in p..Len(log) :
                     /\ log[j] = Sync(owners[p][1], owners[p][2])
                     /\ \A x \in p..j : owners[x] = owners[p]
                     /\ \A x \in p..(j - 1) : log[x].type # "Sync"
                     /\ j < Len(log) => owners[j + 1] # owners[p]

\* the stream holds the second session's deletion of the meter 2, two
\* ServerUpdates and the Sync, right after the indications of a tick and
\* before the indication of the next, and a command of the first session
C26_Witness ==
    \E p \in DOMAIN log :
        /\ p > 1
        /\ p + 3 <= Len(log)
        /\ owners[p - 1][1] = 0
        /\ SubSeq(log, p, p + 2) =
              <<EvDeleteConnection(<<2, 0>>), EvDeleteModule(2), Sync(2, 1)>>
        /\ log[p + 3] = EvUpdateModuleIndication(1, 1)
        /\ \E q \in DOMAIN log : log[q] = Sync(1, 3)

----------------------------------------------------------------------------
(* Properties of save and load, over SpecRoundTrip *)

\* C27: save/load round trip. For every workspace w reachable by client
\* commands, Workspace::load(w.save()) has the same module ids with the same
\* params, the same geometry for every existing module, the same connection
\* map and the same module id sequence as w; the module id sequence never
\* goes back, across a reload either, and a new module gets an id above it,
\* so a CreateModule after a reload never reuses an id.
C27_SaveLoadRoundTrip ==
    /\ [](pc = "loaded" =>
             /\ DOMAIN loaded.modules = Modules
             /\ \A id \in Modules :
                   /\ ModuleParamsOf(loaded.modules[id]) = ModuleParamsOf(workspace.modules[id])
                   /\ id \in DOMAIN loaded.geometry
                   /\ id \in DOMAIN workspace.geometry
                   /\ loaded.geometry[id] = workspace.geometry[id]
             /\ loaded.connections = Connections
             /\ loaded.module_seq = workspace.module_seq)
    /\ [][/\ workspace'.module_seq >= workspace.module_seq
           /\ \A id \in DOMAIN workspace'.modules \ Modules : id > workspace.module_seq]_vars

\* the workspace was saved and loaded after its module 1 was deleted: the
\* amplifier 2 has the params and the geometry it was created with and its
\* input connected to its own output, and the module id sequence stands at 2
C27_Witness ==
    /\ pc = "loaded"
    /\ Modules = {2}
    /\ loaded.module_seq = 2
    /\ ModuleParamsOf(loaded.modules[2]) = [kind |-> "Amplifier", value |-> 1]
    /\ loaded.geometry = (2 :> 1)
    /\ loaded.connections = (<<2, 0>> :> <<2, 0>>)
    /\ 1 \in DOMAIN workspace.geometry

----------------------------------------------------------------------------
(* Properties of the sessions and their receivers, over SpecFanout *)

RECURSIVE Restrict(_, _)

\* the elements of the sequence that are in the set S, in their order
Restrict(seq, S) ==
    IF seq = <<>> THEN <<>>
    ELSE (IF Head(seq) \in S THEN <<Head(seq)>> ELSE <<>>) \o Restrict(Tail(seq), S)

\* C14: single totally-ordered event stream. Every subscriber observes events
\* sent after its subscription, in the order in which the engine sent them
\* (the positions it takes from the stream increase), and the events two
\* subscribers have both received stand in the same order for both.
C14_TotalOrder ==
    /\ \A s \in DOMAIN subs :
          LET received == subs[s].received
          IN /\ \A i \in DOMAIN received :
                   received[i] > subs[s].start /\ received[i] <= Len(log)
             /\ \A i \in 1..(Len(received) - 1) : received[i] < received[i + 1]
    /\ \A s, t \in DOMAIN subs :
          s < t => Restrict(subs[s].received, Range(subs[t].received))
                     = Restrict(subs[t].received, Range(subs[s].received))

\* two sessions that subscribed at different points of the stream have both
\* received the same two events
C14_Witness ==
    /\ DOMAIN subs = {1, 2}
    /\ subs[1].start < subs[2].start
    /\ Len(subs[2].received) >= 2
    /\ \A i \in DOMAIN subs[2].received :
          \E k \in DOMAIN subs[1].received : subs[1].received[k] = subs[2].received[i]

\* what a client holds of the workspace: the params of the modules and the
\* connections
Replica(state) == [modules |-> state.modules, connections |-> state.connections]

\* the client's copy after a ServerUpdate or a Sync
ApplyEvent(replica, event) ==
    CASE event.type = "CreateModule" ->
            [replica EXCEPT !.modules = MapInsert(@, event.id, event.params)]
      [] event.type = "UpdateModuleParams" ->
            [replica EXCEPT !.modules = MapInsert(@, event.id, event.params)]
      [] event.type = "DeleteModule" ->
            [replica EXCEPT !.modules = MapRemove(@, event.id)]
      [] event.type = "CreateConnection" ->
            [replica EXCEPT !.connections = MapInsert(@, event.input, event.output)]
      [] event.type = "DeleteConnection" ->
            [replica EXCEPT !.connections = MapRemove(@, event.input)]
      [] OTHER -> replica

EmptyReplica == [modules |-> <<>>, connections |-> <<>>]

RECURSIVE ApplyEvents(_, _)

ApplyEvents(replica, events) ==
    IF events = <<>> THEN replica
    ELSE ApplyEvents(ApplyEvent(replica, Head(events)), Tail(events))

\* C15: atomic connect. The snapshot a connect returns reflects exactly the
\* events sent before the subscription began, the subscription delivers
\* exactly the events sent after it, each once and none missing, and the
\* delivered events applied to the snapshot give the module set and the
\* connection map of the engine once the session has taken every event.
C15_AtomicConnect ==
    \A s \in DOMAIN subs :
        LET sub == subs[s]
            before == SubSeq(log, 1, sub.start)
            delivered == [i \in DOMAIN sub.received |-> log[sub.received[i]]]
            replayed == ApplyEvents(Replica(sub.snapshot), delivered)
        IN ~sub.lagged =>
            /\ Replica(sub.snapshot) = ApplyEvents(EmptyReplica, before)
            /\ sub.received \o sub.pending = Positions(sub.start, Len(log))
            /\ sub.pending = <<>> =>
                  /\ DOMAIN replayed.modules = Modules
                  /\ replayed.connections = Connections

\* the second session connected when module 1 was connected to itself, and
\* has since received the events of the deletion of the module
C15_Witness ==
    /\ 2 \in DOMAIN subs
    /\ subs[2].snapshot.connections = (<<1, 0>> :> <<1, 0>>)
    /\ subs[2].pending = <<>>
    /\ Len(subs[2].received) = 3
    /\ 1 \notin Modules

----------------------------------------------------------------------------
(* Properties of the clock, over SpecTiming *)

\* C17: timing non-drift. The scheduled end of tick n is
\* floor((n+1) * 1000 / 60) ms after start, a function of the tick index; for
\* every n it is less than 1 ms before the exact end (n+1)/60 s and never
\* after it, and the scheduled ends increase strictly with n.
C17_TimingNonDrift ==
    /\ tick_hist.executed >= 0 =>
          scheduled_tick_end = ((tick_hist.executed + 1) * 1000) \div 60
    /\ \A n \in 0..MaxTickIndex :
          LET tick_end == ScheduledTickEnd(n + 1)
          IN /\ tick_end = ((n + 1) * 1000) \div 60
             /\ 60 * tick_end <= (n + 1) * 1000
             /\ (n + 1) * 1000 < 60 * (tick_end + 1)
             /\ ScheduledTickEnd(n + 2) > tick_end

\* the third tick is under way, with its end scheduled 50 ms after start
C17_Witness ==
    /\ tick_hist.executed = 2
    /\ scheduled_tick_end = 50
    /\ pc = "indications"

\* C18: ticks are never skipped or coalesced. run_tick is called with the
\* indices 0, 1, 2, ... one after the other, once in every turn of the loop,
\* and when the execution of a tick ends at or after its scheduled end the
\* engine starts the next tick without a blocking receive on the command
\* queue.
C18_NoSkippedTick ==
    /\ [](tick_hist.late => ~tick_hist.blocked)
    /\ [][/\ tick_hist'.executed # tick_hist.executed =>
               tick_hist'.executed = tick_hist.executed + 1
          /\ (pc = "run_tick" /\ pc' # "run_tick") =>
               tick_hist'.executed = tick_hist.executed + 1
          /\ (pc # "run_tick" /\ pc' = "run_tick" /\ tick_hist.late) =>
               ~tick_hist'.blocked]_vars

\* tick 0 ended after its scheduled end and the loop has come back to its
\* top for tick 1
C18_Witness ==
    /\ tick_hist.executed = 0
    /\ tick_hist.late
    /\ pc = "run_tick"
    /\ now >= scheduled_tick_end

\* the step is a process_message of the command loops: a session is given its
\* id, or a command's events are sent
Serviced ==
    /\ pc = "commands"
    /\ session_seq' # session_seq \/ Len(log') > Len(log)

\* C23: command servicing is bounded by the tick deadline. After the graph of
\* tick n has run, no command is taken from the queue and processed at a time
\* at or after the scheduled end of tick n, before tick n+1 runs.
C23_ServicingBounded == [][Serviced => now < scheduled_tick_end]_vars

----------------------------------------------------------------------------
(* Properties of Workspace::load, over SpecLoad *)

\* the input ids the saved layout gives an output
SavedInputIds(saved) ==
    {<<id, i - 1>> : id \in DOMAIN saved.modules, i \in 1..2}

\* C20: best-effort load. Whatever the saved layout (outputs on missing
\* modules, indices out of range, outputs of another line type, modules saved
\* after the modules that name them), the loaded workspace has the saved
\* modules and satisfies referential integrity; every saved connection
\* that typechecks against the loaded modules is present, every other one is
\* absent, and no error is raised.
C20_BestEffortLoad ==
    pc = "loaded" =>
        /\ ~panicked
        /\ Modules = DOMAIN save.modules
        /\ \A input_id \in DOMAIN Connections : WellTyped(workspace, input_id)
        /\ DOMAIN Connections \subseteq SavedInputIds(save)
        /\ \A input_id \in SavedInputIds(save) :
              LET output_id == save.modules[input_id[1]].inputs[input_id[2] + 1]
              IN IF output_id # <<>> /\ TypeChecks(workspace, input_id, output_id)
                 THEN /\ input_id \in DOMAIN Connections
                      /\ Connections[input_id] = output_id
                 ELSE input_id \notin DOMAIN Connections

\* a layout has been loaded in which the amplifier 1 takes its stereo input
\* from the amplifier 2 (saved after it in one of the orders) and its mono
\* input from a stereo output, and the amplifier 2 names a missing module;
\* the first connection is there and the other two are not
C20_Witness ==
    /\ pc = "loaded"
    /\ DOMAIN save.modules = {1, 2}
    /\ save.modules[1].params.kind = "Amplifier"
    /\ save.modules[2].params.kind = "Amplifier"
    /\ save.modules[1].inputs = <<<<2, 0>>, <<1, 0>>>>
    /\ save.modules[2].inputs = <<<<3, 0>>, <<>>>>
    /\ Connections = (<<1, 0>> :> <<2, 0>>)

----------------------------------------------------------------------------
(* Properties of two engines, over SpecTwin *)

ServerUpdates(events) == SelectSeq(events, IsServerUpdate)

\* C7: event determinism. Two engines that start empty and process the same
\* sequence of client commands emit the same sequence of ServerUpdates.
C7_EventDeterminism == ServerUpdates(log) = ServerUpdates(twin.log)

====
